---- MODULE Spec2Model ----
(***************************************************************************)
(* Model of the Base transaction analyzers: the metrics collector's log    *)
(* decoding and transaction categorisation (BaseMetricsCollector), the     *)
(* bridge direction rule (BaseBridgeAnalyzer), protocol detection, swap    *)
(* analysis and the impermanent-loss formula (DeFiProtocolAnalyzer), NFT   *)
(* transaction analysis (BaseNFTAnalyzer), the static contract and token   *)
(* tables (BaseNetworkUtils), the gas cost (GasOptimizer) and the gas      *)
(* efficiency rating (BaseTransactionAnalyzer).  Addresses, topics, data   *)
(* words and amounts are kept as the strings the code handles, so that     *)
(* case conversion, slicing and big-integer arithmetic are computed and    *)
(* not assumed; numbers are IEEE-754 doubles, every operation correctly    *)
(* rounded.  A call of an async method is a sequence of steps, one from    *)
(* each await to the next, and the steps of calls that overlap in time     *)
(* interleave.                                                             *)
(***************************************************************************)
EXTENDS Integers, Sequences, FiniteSets, Bags, TLC

VARIABLES pc, op, tx, receipt, provider, args, locals, result, waiting,
          sweepIdx, returned, metricsCache, knownContractsMap, pending, history

vars == <<pc, op, tx, receipt, provider, args, locals, result, waiting,
          sweepIdx, returned, metricsCache, knownContractsMap, pending, history>>

\* the collector's fields metricsCache and knownContracts, its calls of
\* collectNetworkMetrics that wait for the provider, and what has happened
\* since the cache was last cleared
collectorVars == <<metricsCache, knownContractsMap, pending, history>>

(***************************************************************************)
(* Bounds                                                                  *)
(***************************************************************************)
\* longest log list of a receipt
MaxLogs == 2
\* largest transaction value, in wei
MaxValue == 1
\* most calls waiting at an await at one time
MaxInFlight == 2
\* most of the waiting calls that hold an answer of the provider or a local
MaxHolding == 1
\* most fetches of one block between two clearCache calls
MaxFetches == 2

(***************************************************************************)
(* JavaScript string primitives                                            *)
(***************************************************************************)
UpperChars == "ABCDEFGHIJKLMNOPQRSTUVWXYZ"
LowerChars == "abcdefghijklmnopqrstuvwxyz"
HexChars == "0123456789abcdefABCDEF"

CharAt(s, i) == SubSeq(s, i, i)

CharsOf(alphabet) == {CharAt(alphabet, i) : i \in 1..Len(alphabet)}

UpperSet == CharsOf(UpperChars)
HexSet == CharsOf(HexChars)

\* the lower-case letter of every upper-case letter
LowerOfUpper == [c \in UpperSet |->
                  CharAt(LowerChars, CHOOSE i \in 1..26 : CharAt(UpperChars, i) = c)]

LowerChar(c) == IF c \in UpperSet THEN LowerOfUpper[c] ELSE c

RECURSIVE toLowerCase(_)
toLowerCase(s) ==
  IF Len(s) = 0 THEN "" ELSE LowerChar(CharAt(s, 1)) \o toLowerCase(SubSeq(s, 2, Len(s)))

\* the upper-case letter of every lower-case letter
UpperOfLower == [c \in CharsOf(LowerChars) |->
                  CharAt(UpperChars, CHOOSE i \in 1..26 : CharAt(LowerChars, i) = c)]

UpperChar(c) == IF c \in DOMAIN UpperOfLower THEN UpperOfLower[c] ELSE c

RECURSIVE toUpperCase(_)
toUpperCase(s) ==
  IF Len(s) = 0 THEN "" ELSE UpperChar(CharAt(s, 1)) \o toUpperCase(SubSeq(s, 2, Len(s)))

\* String.prototype.slice(n) for n >= 0: the suffix from the 0-based index n
slice(s, n) == IF n >= Len(s) THEN "" ELSE SubSeq(s, n + 1, Len(s))

\* String.prototype.includes(sub)
includes(s, sub) ==
  \E i \in 1..(Len(s) - Len(sub) + 1) : SubSeq(s, i, i + Len(sub) - 1) = sub

IsHexDigits(s) == \A i \in 1..Len(s) : CharAt(s, i) \in HexSet

(***************************************************************************)
(* Absent values and call outcomes                                         *)
(***************************************************************************)
\* a null `to`, as a string so that it compares with the address strings
NULL == "<null>"

Return(v) == [kind |-> "return", value |-> v]
ReturnNull == [kind |-> "null"]
Throw(e) == [kind |-> "throw", error |-> e]

(***************************************************************************)
(* Calls in flight.  An async method runs from its call to its first       *)
(* await, and from the settling of the promise it awaits to its next await *)
(* or to its end; between two such steps the steps of other calls run.  A  *)
(* call is the record of its method, of the await at which it waits        *)
(* ("done" once it has returned or thrown), of what the provider has       *)
(* answered it (provider is "reject" after a rejected request and          *)
(* "noBlock" after a null block), of its arguments, of its local variables *)
(* and of its result.                                                      *)
(***************************************************************************)
NoTx == [found |-> FALSE, to |-> NULL, value |-> 0]
NoReceipt == [found |-> FALSE, logs |-> << >>]

NoResult == [kind |-> "none"]

\* the arguments of a call that takes neither a transaction nor a receipt
NoArgs == [kind |-> "none"]

\* the locals of a call that has assigned none
NoLocals == [kind |-> "none"]

\* the call of the method `name` that waits at its first await
Started(name, a, await) ==
  [op |-> name, pc |-> await, provider |-> "ok", tx |-> NoTx, receipt |-> NoReceipt,
   args |-> a, locals |-> NoLocals, result |-> NoResult]

\* what settles an awaited promise: a rejection or a value
Rejected == [kind |-> "reject"]
Answer(v) == [kind |-> "answer", value |-> v]

Awaits(f, await) == [f EXCEPT !.pc = await]

Finished(f, res) == [f EXCEPT !.pc = "done", !.result = res]

\* a rejected request of the provider is thrown by the await
NetworkError(f) == Finished([f EXCEPT !.provider = "reject"], Throw("Network error"))

\* catch (error) { ...; return null }
Caught(g) == IF g.result.kind = "throw" THEN [g EXCEPT !.result = ReturnNull] ELSE g

(***************************************************************************)
(* BaseNetworkUtils: the static contract table                             *)
(***************************************************************************)
BASE_CONTRACTS == <<
  [name |-> "Uniswap V3 Router", address |-> "0x2626664c2603336E57B271c5C0b26F421741e481", category |-> "defi"],
  [name |-> "Uniswap V3 Factory", address |-> "0x33128a8fC17869897dcE68Ed026d694621f6FDfD", category |-> "defi"],
  [name |-> "Aerodrome Router", address |-> "0xcF77a3Ba9A5CA399B7c97c74d54e5b1Beb874E43", category |-> "defi"],
  [name |-> "Aerodrome Factory", address |-> "0x420DD381b31aEf6683db6B902084cB0FFECe40Da", category |-> "defi"],
  [name |-> "Compound V3 USDC", address |-> "0x9c4ec768c28520B50860ea7a15bd7213a9fF58bf", category |-> "defi"],
  [name |-> "Base Bridge", address |-> "0x3154Cf16ccdb4C6d922629664174b904d80F2C35", category |-> "bridge"],
  [name |-> "WETH", address |-> "0x4200000000000000000000000000000000000006", category |-> "infrastructure"] >>

NoContract == [name |-> "", address |-> "", category |-> "none"]

\* Array.prototype.find: the first entry whose lower-cased address equals
\* the lower-cased argument, null when there is none
getContractInfo(address) ==
  LET hits == {i \in 1..Len(BASE_CONTRACTS) :
                 toLowerCase(BASE_CONTRACTS[i].address) = toLowerCase(address)}
  IN IF hits = {} THEN NoContract
     ELSE BASE_CONTRACTS[CHOOSE i \in hits : \A j \in hits : i <= j]

isKnownContract(address) ==
  \E i \in 1..Len(BASE_CONTRACTS) :
    toLowerCase(BASE_CONTRACTS[i].address) = toLowerCase(address)

BASE_TOKENS == <<
  [symbol |-> "ETH", address |-> "0x0000000000000000000000000000000000000000", decimals |-> 18],
  [symbol |-> "WETH", address |-> "0x4200000000000000000000000000000000000006", decimals |-> 18],
  [symbol |-> "USDC", address |-> "0x833589fCD6eDb6E08f4c7C32D4f71b54bdA02913", decimals |-> 6],
  [symbol |-> "USDbC", address |-> "0xd9aAEc86B65D86f6A7B5B1b0c42FFA531710b6CA", decimals |-> 6],
  [symbol |-> "DAI", address |-> "0x50c5725949A6F0c72E6C4a641F24049A917DB0Cb", decimals |-> 18],
  [symbol |-> "AERO", address |-> "0x940181a94A35A4569E4529A3CDfB74e38FD98631", decimals |-> 18],
  [symbol |-> "COMP", address |-> "0x9e1028F5F1D5eDE59748FFceE5532509976840E0", decimals |-> 18] >>

NoToken == [symbol |-> "", address |-> "", decimals |-> 0]

\* variant: the table's address and symbol are compared as written, only
\* the argument is lower-cased
getTokenInfo_TableAsWritten(addressOrSymbol) ==
  LET search == toLowerCase(addressOrSymbol)
      hits == {i \in 1..Len(BASE_TOKENS) :
                 \/ BASE_TOKENS[i].address = search
                 \/ BASE_TOKENS[i].symbol = search}
  IN IF hits = {} THEN NoToken
     ELSE BASE_TOKENS[CHOOSE i \in hits : \A j \in hits : i <= j]

\* Array.prototype.find: the first token whose lower-cased address or
\* lower-cased symbol equals the lower-cased argument, null when none
getTokenInfo(addressOrSymbol) ==
  LET search == toLowerCase(addressOrSymbol)
      hits == {i \in 1..Len(BASE_TOKENS) :
                 \/ toLowerCase(BASE_TOKENS[i].address) = search
                 \/ toLowerCase(BASE_TOKENS[i].symbol) = search}
  IN IF hits = {} THEN NoToken
     ELSE BASE_TOKENS[CHOOSE i \in hits : \A j \in hits : i <= j]

(***************************************************************************)
(* ethers v5 primitives used by the collector                              *)
(***************************************************************************)
\* EIP-55 casing of the addresses that occur in the modelled logs (the
\* casing is a Keccak-256 digest of the lower-cased address, tabulated here)
ChecksumTable == <<
  "0x742d35Cc6634C0532925A3B8D4C9dB96C4B4d8B6",
  "0x2626664c2603336E57B271c5C0b26F421741e481",
  "0x1234567890123456789012345678901234567890" >>

getChecksumAddress(address) ==
  LET hits == {i \in 1..Len(ChecksumTable) :
                 toLowerCase(ChecksumTable[i]) = toLowerCase(address)}
  IN IF hits = {} THEN toLowerCase(address) ELSE ChecksumTable[CHOOSE i \in hits : TRUE]

IsMixedCase(s) ==
  /\ \E i \in 1..Len(s) : CharAt(s, i) \in {"A", "B", "C", "D", "E", "F"}
  /\ \E i \in 1..Len(s) : CharAt(s, i) \in {"a", "b", "c", "d", "e", "f"}

\* ethers.utils.getAddress on a "0x"-prefixed string: the checksummed
\* address, or an error for a string that is not 40 hex digits or that is
\* mixed-case with a wrong checksum
getAddress(address) ==
  IF Len(address) = 42 /\ SubSeq(address, 1, 2) = "0x" /\ IsHexDigits(slice(address, 2))
    THEN IF IsMixedCase(slice(address, 2)) /\ getChecksumAddress(address) # address
           THEN Throw("bad address checksum")
           ELSE Return(getChecksumAddress(address))
    ELSE Throw("invalid address")

RECURSIVE TrimHex(_)
\* the loop of toHex: drop leading "00" bytes while more than one byte is left
TrimHex(digits) ==
  IF Len(digits) > 2 /\ SubSeq(digits, 1, 2) = "00"
    THEN TrimHex(slice(digits, 2))
    ELSE digits

\* BigNumber.from on a string: a "0x" string with at least one hex digit
\* becomes the BigNumber whose _hex is the even-length, zero-trimmed word;
\* any other string of the modelled inputs is rejected
BigNumberFrom(value) ==
  IF Len(value) > 2 /\ SubSeq(value, 1, 2) = "0x" /\ IsHexDigits(slice(value, 2))
    THEN LET digits == slice(value, 2)
             even == IF Len(digits) % 2 = 1 THEN "0" \o digits ELSE digits
         IN Return("0x" \o TrimHex(even))
    ELSE Throw("invalid BigNumber string")

(***************************************************************************)
(* BaseMetricsCollector                                                    *)
(***************************************************************************)
TransactionCategory ==
  {"transfer", "defi_swap", "defi_liquidity", "nft_trade",
   "contract_deployment", "contract_interaction", "bridge", "unknown"}

\* the Map filled by initializeKnownContracts; Map.get compares keys exactly
knownContracts == <<
  [key |-> "0x4200000000000000000000000000000000000006", symbol |-> "WETH"],
  [key |-> "0x833589fCD6eDb6E08f4c7C32D4f71b54bdA02913", symbol |-> "USDC"],
  [key |-> "0x50c5725949A6F0c72E6C4a641F24049A917DB0Cb", symbol |-> "DAI"] >>

knownContractsGet(address) ==
  IF \E i \in 1..Len(knownContracts) : knownContracts[i].key = address
    THEN knownContracts[CHOOSE i \in 1..Len(knownContracts) : knownContracts[i].key = address].symbol
    ELSE "UNKNOWN"

transferEventSignature == "0xddf252ad1be2c89b69c2b068fc378daa952ba7f163c4a11628f55a4df523b3ef"

\* variant: the sender is read from the third topic and the recipient from
\* the second
DecodeTransferLog_SwappedParties(log) ==
  IF Len(log.topics) = 3 /\ log.topics[1] = transferEventSignature
    THEN LET from == getAddress("0x" \o slice(log.topics[3], 26))
             to == getAddress("0x" \o slice(log.topics[2], 26))
             amount == BigNumberFrom(log.data)
         IN IF from.kind = "throw" \/ to.kind = "throw" \/ amount.kind = "throw"
              THEN << >>
              ELSE << [token |-> log.address,
                       from |-> from.value,
                       to |-> to.value,
                       amount |-> amount.value,
                       symbol |-> knownContractsGet(log.address),
                       decimals |-> 18] >>
    ELSE << >>

\* the body of the loop of extractTokenTransfers for one log: the transfers
\* it pushes (none when the guard fails or the try block throws)
DecodeTransferLog(log) ==
  IF Len(log.topics) = 3 /\ log.topics[1] = transferEventSignature
    THEN LET from == getAddress("0x" \o slice(log.topics[2], 26))
             to == getAddress("0x" \o slice(log.topics[3], 26))
             amount == BigNumberFrom(log.data)
         IN IF from.kind = "throw" \/ to.kind = "throw" \/ amount.kind = "throw"
              THEN << >>
              ELSE << [token |-> log.address,
                       from |-> from.value,
                       to |-> to.value,
                       amount |-> amount.value,
                       symbol |-> knownContractsGet(log.address),
                       decimals |-> 18] >>
    ELSE << >>

RECURSIVE extractTokenTransfers_Reversed(_)
\* variant: each transfer is put in front of the list (unshift for push)
extractTokenTransfers_Reversed(logs) ==
  IF logs = << >> THEN << >>
  ELSE extractTokenTransfers_Reversed(Tail(logs)) \o DecodeTransferLog(Head(logs))

RECURSIVE extractTokenTransfers(_)
extractTokenTransfers(logs) ==
  IF logs = << >> THEN << >>
  ELSE DecodeTransferLog(Head(logs)) \o extractTokenTransfers(Tail(logs))

\* variant: the native-transfer rule tests the decoded transfers, not the logs
categorizeTransaction_NativeByEvents(t, r, tokenTransfers) ==
  IF t.to = NULL \/ (t.value > 0 /\ Len(tokenTransfers) = 0) THEN "transfer"
  ELSE IF t.to = NULL THEN "contract_deployment"
  ELSE IF Len(tokenTransfers) > 1 THEN "defi_swap"
  ELSE IF Len(tokenTransfers) = 1 THEN "transfer"
  ELSE IF Len(r.logs) > 0 THEN "contract_interaction"
  ELSE "unknown"

\* variant: the swap rule fires from one token transfer on
categorizeTransaction_SwapFromOne(t, r, tokenTransfers) ==
  IF t.to = NULL \/ (t.value > 0 /\ Len(r.logs) = 0) THEN "transfer"
  ELSE IF t.to = NULL THEN "contract_deployment"
  ELSE IF Len(tokenTransfers) >= 1 THEN "defi_swap"
  ELSE IF Len(r.logs) > 0 THEN "contract_interaction"
  ELSE "unknown"

\* variant: the final return is missing, the function falls off its end
categorizeTransaction_NoDefault(t, r, tokenTransfers) ==
  IF t.to = NULL \/ (t.value > 0 /\ Len(r.logs) = 0) THEN "transfer"
  ELSE IF t.to = NULL THEN "contract_deployment"
  ELSE IF Len(tokenTransfers) > 1 THEN "defi_swap"
  ELSE IF Len(tokenTransfers) = 1 THEN "transfer"
  ELSE IF Len(r.logs) > 0 THEN "contract_interaction"
  ELSE "undefined"

\* categorizeTransaction(tx, receipt, tokenTransfers); value is tx.value
categorizeTransaction(t, r, tokenTransfers) ==
  IF t.to = NULL \/ (t.value > 0 /\ Len(r.logs) = 0) THEN "transfer"
  ELSE IF t.to = NULL THEN "contract_deployment"
  ELSE IF Len(tokenTransfers) > 1 THEN "defi_swap"
  ELSE IF Len(tokenTransfers) = 1 THEN "transfer"
  ELSE IF Len(r.logs) > 0 THEN "contract_interaction"
  ELSE "unknown"

(***************************************************************************)
(* BaseBridgeAnalyzer                                                      *)
(***************************************************************************)
bridgeContracts ==
  [l1StandardBridge |-> "0x3154Cf16ccdb4C6d922629664174b904d80F2C35",
   l2StandardBridge |-> "0x4200000000000000000000000000000000000010",
   optimismPortal |-> "0x49048044D57e1C92A77f79988d21Fa8fAF74E97e",
   l2OutputOracle |-> "0x56315b90c40730925ec5485cf004d835058518A0"]

RECURSIVE someProven(_)
\* logs.some(log => log.topics[0].includes('Proven')): stops at the first
\* hit; reading topics[0] of a log without topics yields undefined, and the
\* call of includes on it raises a TypeError
someProven(logs) ==
  IF logs = << >> THEN Return(FALSE)
  ELSE IF Len(Head(logs).topics) = 0 THEN Throw("TypeError")
  ELSE IF includes(Head(logs).topics[1], "Proven") THEN Return(TRUE)
  ELSE someProven(Tail(logs))

determineBridgeDirection(to, logs) ==
  IF to = NULL THEN Return("deposit")
  ELSE LET contractAddress == toLowerCase(to)
       IN IF contractAddress = toLowerCase(bridgeContracts.l1StandardBridge)
            THEN Return("deposit")
          ELSE IF contractAddress = toLowerCase(bridgeContracts.l2StandardBridge)
            THEN Return("withdrawal")
          ELSE IF contractAddress = toLowerCase(bridgeContracts.optimismPortal)
            THEN LET proven == someProven(logs)
                 IN IF proven.kind = "throw" THEN proven
                    ELSE IF proven.value THEN Return("prove") ELSE Return("finalize")
          ELSE Return("deposit")

\* the try block of analyzeBridgeTransaction from the await at which the
\* call f waits, settled by the answer, to the next await or to its end; the
\* promises of extractTokenInfo, getBridgeStatus, calculateBridgeFee and
\* getActualBridgeTime resolve by themselves
analyzeBridgeTransactionBody(f, answer) ==
  IF answer.kind = "reject" THEN NetworkError(f)
  ELSE IF f.pc = "getTransaction"
    THEN Awaits([f EXCEPT !.tx = answer.value], "getTransactionReceipt")
  ELSE IF f.pc = "getTransactionReceipt"
    THEN LET g == [f EXCEPT !.receipt = answer.value]
             direction == determineBridgeDirection(g.tx.to, g.receipt.logs)
         IN IF ~g.tx.found \/ ~g.receipt.found THEN Finished(g, ReturnNull)
            ELSE IF direction.kind = "throw" THEN Finished(g, direction)
            ELSE Awaits([g EXCEPT !.locals = [direction |-> direction.value]],
                        "extractTokenInfo")
  ELSE IF f.pc = "extractTokenInfo" THEN Awaits(f, "getBridgeStatus")
  ELSE IF f.pc = "getBridgeStatus" THEN Awaits(f, "calculateBridgeFee")
  ELSE IF f.pc = "calculateBridgeFee" THEN Awaits(f, "getActualBridgeTime")
  ELSE Finished(f, Return([direction |-> f.locals.direction, status |-> "finalized"]))

analyzeBridgeTransaction(f, answer) == Caught(analyzeBridgeTransactionBody(f, answer))

(***************************************************************************)
(* DeFiProtocolAnalyzer                                                    *)
(***************************************************************************)
\* the protocols Map in insertion order, each with Object.values of its
\* contractAddresses
protocols == <<
  [name |-> "Uniswap V3",
   addresses |-> << "0x2626664c2603336E57B271c5C0b26F421741e481",
                    "0x33128a8fC17869897dcE68Ed026d694621f6FDfD",
                    "0x3d4e44Eb1374240CE5F1B871ab261CD16335B76a" >>],
  [name |-> "Aerodrome",
   addresses |-> << "0xcF77a3Ba9A5CA399B7c97c74d54e5b1Beb874E43",
                    "0x420DD381b31aEf6683db6B902084cB0FFECe40Da" >>],
  [name |-> "Compound V3",
   addresses |-> << "0x9c4ec768c28520B50860ea7a15bd7213a9fF58bf" >>] >>

NoProtocol == [name |-> "", addresses |-> << >>]

\* addresses.includes(contractAddress.toLowerCase()): the table entries are
\* compared as written
detectProtocol(contractAddress) ==
  IF contractAddress = NULL THEN NoProtocol
  ELSE LET hits == {i \in 1..Len(protocols) :
                      \E j \in 1..Len(protocols[i].addresses) :
                        protocols[i].addresses[j] = toLowerCase(contractAddress)}
       IN IF hits = {} THEN NoProtocol
          ELSE protocols[CHOOSE i \in hits : \A k \in hits : i <= k]

\* the try block of analyzeSwap from the await at which the call f waits,
\* settled by the answer, to the next await or to its end
analyzeSwapBody(f, answer) ==
  IF answer.kind = "reject" THEN NetworkError(f)
  ELSE IF f.pc = "getTransaction"
    THEN Awaits([f EXCEPT !.tx = answer.value], "getTransactionReceipt")
  ELSE IF f.pc = "getTransactionReceipt"
    THEN LET g == [f EXCEPT !.receipt = answer.value]
             protocol == detectProtocol(g.tx.to)
         IN IF ~g.tx.found \/ ~g.receipt.found
              THEN Finished(g, Throw("Transaction not found"))
            ELSE IF protocol = NoProtocol THEN Finished(g, ReturnNull)
            ELSE Awaits([g EXCEPT !.locals = [protocol |-> protocol.name]],
                        "parseSwapLogs")
  ELSE Finished(f, Return([protocol |-> f.locals.protocol,
                           tokenIn |-> "USDC", tokenOut |-> "WETH"]))

\* variant: no catch clause, the errors of the body reach the caller
analyzeSwap_NoCatch(f, answer) == analyzeSwapBody(f, answer)

\* analyzeSwap: the catch clause turns every error of the body into null
analyzeSwap(f, answer) == Caught(analyzeSwapBody(f, answer))

(***************************************************************************)
(* The numbers of the program that are no doubles with a value: the        *)
(* infinities and NaN                                                      *)
(***************************************************************************)
Infinity(sign) == [kind |-> "infinity", value |-> sign]
NaN == [kind |-> "nan", value |-> 0]

(***************************************************************************)
(* BaseNFTAnalyzer                                                         *)
(***************************************************************************)
marketplaces == <<
  [name |-> "OpenSea", address |-> "0x00000000000000ADc04C56Bf30aC9d3c0aAF14dC"],
  [name |-> "Element", address |-> "0x20F780A973856B93f63670377900C1d2a50a246c"],
  [name |-> "Quix", address |-> "0x965D2c0C0A8E3F8E8C8B8B8B8B8B8B8B8B8B8B8B"] >>

NoMarketplace == [name |-> "", address |-> ""]

detectMarketplace(contractAddress) ==
  IF contractAddress = NULL THEN NoMarketplace
  ELSE LET hits == {i \in 1..Len(marketplaces) :
                      toLowerCase(marketplaces[i].address) = toLowerCase(contractAddress)}
       IN IF hits = {} THEN NoMarketplace
          ELSE marketplaces[CHOOSE i \in hits : \A k \in hits : i <= k]

determineTransactionType(logs, marketplace) ==
  IF marketplace # NoMarketplace THEN "sale" ELSE "transfer"

HexDigitValue(c) ==
  LET i == CHOOSE k \in 1..22 : CharAt(HexChars, k) = c
  IN IF i <= 16 THEN i - 1 ELSE i - 7

RECURSIVE HexValue(_)
\* the number written by a string of hex digits (most significant first)
HexValue(digits) ==
  IF Len(digits) = 0 THEN 0
  ELSE 16 * HexValue(SubSeq(digits, 1, Len(digits) - 1))
         + HexDigitValue(CharAt(digits, Len(digits)))

RECURSIVE DecimalString(_)
\* BigInt.prototype.toString for a non-negative number
DecimalString(n) ==
  IF n < 10 THEN CharAt("0123456789", n + 1)
  ELSE DecimalString(n \div 10) \o CharAt("0123456789", (n % 10) + 1)

\* ethers.toBigInt(word).toString(), for a word that may be missing
toBigIntString(topics, i) ==
  IF Len(topics) < i THEN Throw("invalid BigNumberish value")
  ELSE LET word == topics[i]
       IN IF Len(word) > 2 /\ SubSeq(word, 1, 2) = "0x" /\ IsHexDigits(slice(word, 2))
            THEN Return(DecimalString(HexValue(slice(word, 2))))
            ELSE Throw("invalid BigNumberish string")

\* ethers.getAddress('0x' + topics[i].slice(26)), for a word that may be missing
topicAddress(topics, i) ==
  IF Len(topics) < i THEN Throw("TypeError")
  ELSE getAddress("0x" \o slice(topics[i], 26))

\* the map callback of parseNFTLogs for one log that passed the filter
parseNFTLog(log) ==
  LET tokenId == toBigIntString(log.topics, 4)
      from == topicAddress(log.topics, 2)
      to == topicAddress(log.topics, 3)
  IN IF tokenId.kind = "throw" THEN tokenId
     ELSE IF from.kind = "throw" THEN from
     ELSE IF to.kind = "throw" THEN to
     ELSE Return([address |-> log.address, tokenId |-> tokenId.value,
                  from |-> from.value, to |-> to.value])

RECURSIVE parseNFTLogs(_)
\* filter on topics[0], then map; the first log that fails to parse makes
\* the whole call throw
parseNFTLogs(logs) ==
  IF logs = << >> THEN Return(<< >>)
  ELSE LET log == Head(logs)
       IN IF Len(log.topics) > 0 /\ log.topics[1] = transferEventSignature
            THEN LET first == parseNFTLog(log)
                     rest == parseNFTLogs(Tail(logs))
                 IN IF first.kind = "throw" THEN first
                    ELSE IF rest.kind = "throw" THEN rest
                    ELSE Return(<< first.value >> \o rest.value)
            ELSE parseNFTLogs(Tail(logs))

\* the try block of analyzeNFTTransaction from the await at which the call
\* f waits, settled by the answer, to the next await or to its end
analyzeNFTTransactionBody(f, answer) ==
  IF answer.kind = "reject" THEN NetworkError(f)
  ELSE IF f.pc = "getTransaction"
    THEN Awaits([f EXCEPT !.tx = answer.value], "getTransactionReceipt")
  ELSE LET g == [f EXCEPT !.receipt = answer.value]
           nftLogs == parseNFTLogs(g.receipt.logs)
       IN IF ~g.tx.found \/ ~g.receipt.found THEN Finished(g, ReturnNull)
          ELSE IF nftLogs.kind = "throw" THEN Finished(g, nftLogs)
          ELSE IF Len(nftLogs.value) = 0 THEN Finished(g, ReturnNull)
          ELSE LET primaryLog == nftLogs.value[1]
                   marketplace == detectMarketplace(g.tx.to)
               IN Finished(g,
                    Return([type |-> determineTransactionType(g.receipt.logs, marketplace),
                            collection |-> primaryLog.address,
                            tokenId |-> primaryLog.tokenId,
                            from |-> primaryLog.from,
                            to |-> primaryLog.to,
                            marketplace |-> marketplace.name]))

analyzeNFTTransaction(f, answer) == Caught(analyzeNFTTransactionBody(f, answer))

(***************************************************************************)
(* BaseMetricsCollector.analyzeTransaction                                 *)
(***************************************************************************)
\* the object returned, in the fields to, value, tokenTransfers, category
TransactionAnalysis(f) ==
  Return([to |-> IF f.tx.to = NULL THEN "" ELSE f.tx.to,
          value |-> f.tx.value,
          tokenTransfers |-> f.locals.tokenTransfers,
          category |-> f.locals.category])

\* line 101 done, to the await of line 114 or, for a null `to`, to the
\* return; the timestamp of a null block is a TypeError
TransactionCategorized(g) ==
  IF g.provider = "noBlock" THEN Finished(g, Throw("TypeError"))
  ELSE IF g.tx.to = NULL THEN Finished(g, TransactionAnalysis(g))
  ELSE Awaits(g, "getCode")

\* analyzeTransaction from the await at which the call f waits, settled by
\* the answer, to the next await or to its end.  The absent tx, receipt and
\* block are dereferenced without a check; extractTokenTransfers has run to
\* its end when the call waits for its promise, and categorizeTransaction
\* reads the receipt as it is when the call goes on
analyzeTransaction(f, answer) ==
  IF answer.kind = "reject" THEN NetworkError(f)
  ELSE IF f.pc = "getTransaction"
    THEN Awaits([f EXCEPT !.tx = answer.value], "getTransactionReceipt")
  ELSE IF f.pc = "getTransactionReceipt"
    THEN IF ~f.tx.found
           THEN Finished([f EXCEPT !.receipt = answer.value], Throw("TypeError"))
         ELSE Awaits([f EXCEPT !.receipt = answer.value], "getBlock")
  ELSE IF f.pc = "getBlock"
    THEN Awaits([f EXCEPT !.provider = IF answer.value THEN "ok" ELSE "noBlock",
                          !.locals = [tokenTransfers |->
                                        IF f.receipt.found
                                          THEN extractTokenTransfers(f.receipt.logs)
                                          ELSE << >>]],
                "extractTokenTransfers")
  ELSE IF f.pc = "extractTokenTransfers"
    THEN IF ~f.receipt.found THEN Finished(f, Throw("TypeError"))
         ELSE TransactionCategorized(
                [f EXCEPT !.locals =
                   [tokenTransfers |-> @.tokenTransfers,
                    category |-> categorizeTransaction(f.tx, f.receipt,
                                                       @.tokenTransfers)]])
  ELSE Finished(f, TransactionAnalysis(f))

(***************************************************************************)
(* BaseMetricsCollector.generateAnalyticsReport.  `blocks` is what the     *)
(* provider holds.  args.failAt[n] is the fetch of block n that has        *)
(* failed: 0 for the block fetch, i for the receipt fetch of its i-th      *)
(* transaction, and a larger number when none has.  The report is modelled *)
(* in the fields summary.totalTransactions, summary.totalValue,            *)
(* summary.uniqueAddresses and categories.  The locals are the block       *)
(* number, the index of the transaction in the block, what has been        *)
(* counted, and the decoded transfers of the receipt in hand.              *)
(***************************************************************************)
ReportStart ==
  [totalTransactions |-> 0, totalValue |-> 0, uniqueAddresses |-> {},
   categories |-> [c \in TransactionCategory |-> 0]]

\* the statements of the inner loop before the receipt is fetched
CountTransaction(acc, t) ==
  [acc EXCEPT !.totalTransactions = @ + 1,
              !.totalValue = @ + t.value,
              !.uniqueAddresses = @ \cup {t.from} \cup (IF t.to = NULL THEN {} ELSE {t.to})]

\* the category counted for a transaction whose receipt was fetched
CategoryOf(t) ==
  categorizeTransaction([found |-> TRUE, to |-> t.to, value |-> t.value],
                        [found |-> TRUE, logs |-> t.logs],
                        extractTokenTransfers(t.logs))

\* the report returned after the loop
ReportOf(acc) ==
  Return([summary |-> [totalTransactions |-> acc.totalTransactions,
                       totalValue |-> acc.totalValue,
                       uniqueAddresses |-> Cardinality(acc.uniqueAddresses)],
          categories |-> acc.categories])

ReportLocals(blockNum, index, acc, tokenTransfers) ==
  [blockNum |-> blockNum, index |-> index, acc |-> acc, tokenTransfers |-> tokenTransfers]

\* for (let blockNum = fromBlock; blockNum <= toBlock; blockNum++) at its
\* test: the fetch of the block, or the return when the range is done
ReportAtBlock(f, blockNum, acc) ==
  IF blockNum > f.args.toBlock
    THEN Finished([f EXCEPT !.tx = NoTx, !.receipt = NoReceipt,
                            !.locals = ReportLocals(blockNum, 0, acc, << >>)],
                  ReportOf(acc))
  ELSE Awaits([f EXCEPT !.tx = NoTx, !.receipt = NoReceipt,
                        !.locals = ReportLocals(blockNum, 0, acc, << >>)],
              "getBlockWithTransactions")

\* for (const tx of block.transactions) at the index-th transaction: it is
\* counted and its receipt is asked for, or the block is done
ReportAtTransaction(f, txs, blockNum, index, acc) ==
  IF index > Len(txs) THEN ReportAtBlock(f, blockNum + 1, acc)
  ELSE Awaits([f EXCEPT !.tx = [found |-> TRUE, to |-> txs[index].to,
                                value |-> txs[index].value],
                        !.receipt = NoReceipt,
                        !.locals = ReportLocals(blockNum, index,
                                                CountTransaction(acc, txs[index]), << >>)],
              "getTransactionReceipt")

\* variant: the try block encloses the loop, the first failure ends the loop
blockAfterFailure_StopAtFailure(blockNum, toBlock) == toBlock + 1

\* the catch clause is inside the loop: blockNum++ follows it
blockAfterFailure(blockNum, toBlock) == blockNum + 1

\* the locals of the call f, which are those of the loop's start before the
\* first block is fetched
ReportLocalsOf(f) ==
  IF f.locals = NoLocals THEN ReportLocals(f.args.fromBlock, 0, ReportStart, << >>)
  ELSE f.locals

\* generateAnalyticsReport from its call to its first await, or to its
\* return for an empty range
generateAnalyticsReportCalled(f) ==
  IF f.args.fromBlock > f.args.toBlock THEN Finished(f, ReportOf(ReportStart)) ELSE f

\* generateAnalyticsReport from the await at which the call f waits,
\* settled by the answer, to the next await or to its end; l are its locals
generateAnalyticsReportFrom(blocks, f, answer, l) ==
  IF answer.kind = "reject"
    THEN ReportAtBlock([f EXCEPT !.args.failAt[l.blockNum] = l.index],
                       blockAfterFailure(l.blockNum, f.args.toBlock), l.acc)
  ELSE IF f.pc = "getBlockWithTransactions"
    THEN ReportAtTransaction(f, blocks[l.blockNum].transactions, l.blockNum, 1, l.acc)
  ELSE IF f.pc = "getTransactionReceipt"
    THEN Awaits([f EXCEPT !.receipt = answer.value,
                          !.locals = ReportLocals(l.blockNum, l.index, l.acc,
                                                  extractTokenTransfers(answer.value.logs))],
                "extractTokenTransfers")
  ELSE ReportAtTransaction(
         f, blocks[l.blockNum].transactions, l.blockNum, l.index + 1,
         [l.acc EXCEPT !.categories[categorizeTransaction(f.tx, f.receipt,
                                                          l.tokenTransfers)] = @ + 1])

generateAnalyticsReport(blocks, f, answer) ==
  generateAnalyticsReportFrom(blocks, f, answer, ReportLocalsOf(f))

(***************************************************************************)
(* BaseMetricsCollector.collectNetworkMetrics and clearCache.  A Map is a  *)
(* function from its keys to their values.                                 *)
(***************************************************************************)
EmptyMap == [k \in {} |-> NULL]

MapHas(map, k) == k \in DOMAIN map

MapSet(map, k, v) == [x \in DOMAIN map \cup {k} |-> IF x = k THEN v ELSE map[x]]

\* `network_${blockNumber}`
cacheKey(blockNumber) == "network_" \o DecimalString(blockNumber)

RECURSIVE sumValues(_)
sumValues(txs) == IF txs = << >> THEN 0 ELSE Head(txs).value + sumValues(Tail(txs))

\* the metrics built from a fetched block; totalGasUsed is never added to
networkMetrics(blockNumber, block) ==
  [blockNumber |-> blockNumber,
   gasUsed |-> 0,
   transactionCount |-> Len(block.transactions),
   totalValue |-> sumValues(block.transactions),
   uniqueAddresses |->
     Cardinality({block.transactions[i].from : i \in 1..Len(block.transactions)}
                 \cup {block.transactions[i].to :
                         i \in {j \in 1..Len(block.transactions) :
                                  block.transactions[j].to # NULL}})]

(***************************************************************************)
(* GasOptimizer: BigInt arithmetic on decimal digit strings                *)
(***************************************************************************)
Digits == "0123456789"
DigitSet == CharsOf(Digits)

DigitValue(c) == (CHOOSE k \in 1..10 : CharAt(Digits, k) = c) - 1
DigitChar(n) == CharAt(Digits, n + 1)

IsDecimal(s) == \A i \in 1..Len(s) : CharAt(s, i) \in DigitSet

\* all but the last character, and the value of the last digit
Front(s) == SubSeq(s, 1, Len(s) - 1)
LastDigit(s) == DigitValue(CharAt(s, Len(s)))

\* the digits of a BigInt carry no leading zero; zero is "0"
Normalize(digits) ==
  IF Len(digits) = 0 THEN "0"
  ELSE SubSeq(digits,
              CHOOSE i \in 1..Len(digits) :
                /\ i = Len(digits) \/ CharAt(digits, i) # "0"
                /\ \A j \in 1..(i - 1) : CharAt(digits, j) = "0",
              Len(digits))

\* BigInt(string) for a string of decimal digits (the empty string is 0n);
\* any other string of the modelled inputs is a SyntaxError
BigInt(s) == IF IsDecimal(s) THEN Return(Normalize(s)) ELSE Throw("SyntaxError")

RECURSIVE SmallValue(_)
\* the number written by a few decimal digits
SmallValue(digits) ==
  IF Len(digits) = 0 THEN 0 ELSE 10 * SmallValue(Front(digits)) + LastDigit(digits)

(***************************************************************************)
(* Natural numbers of any size, for the BigInts and the doubles of         *)
(* GasOptimizer.  A natural is the sequence of its limbs in base 1000,     *)
(* lowest first, without high zero limbs (zero is the empty sequence).     *)
(***************************************************************************)
LimbBase == 1000

\* Body of the value, which is computed first and once, as an assignment to
\* a const of the program is
With(value, Body(_)) == CHOOSE body \in {Body(v) : v \in {value}} : TRUE

Limb(a, i) == IF i >= 1 /\ i <= Len(a) THEN a[i] ELSE 0

NatTrim(a) ==
  SubSeq(a, 1, IF \E i \in 1..Len(a) : a[i] # 0
                 THEN CHOOSE i \in 1..Len(a) : a[i] # 0 /\ \A j \in (i + 1)..Len(a) : a[j] = 0
                 ELSE 0)

\* one step of carrying: a coefficient keeps its lowest limb and takes what
\* the coefficient below it has above its lowest limb
CarryOnce(c, i) == (Limb(c, i) % LimbBase) + (Limb(c, i - 1) \div LimbBase)

CarryTwice(c, i) == (CarryOnce(c, i) % LimbBase) + (CarryOnce(c, i - 1) \div LimbBase)

\* three steps leave coefficients from -1 to LimbBase
CarryThrice(c, i) == (CarryTwice(c, i) % LimbBase) + (CarryTwice(c, i - 1) \div LimbBase)

\* the limbs of coefficients from -1 to LimbBase: a coefficient LimbBase
\* carries one up through the coefficients LimbBase - 1 above it, and a
\* coefficient -1 borrows one through the coefficients 0 above it
Rippled(c) ==
  << >> \o [i \in 1..Len(c) |->
     (c[i]
        + (IF \E j \in 1..(i - 1) :
                c[j] = LimbBase /\ \A k \in (j + 1)..(i - 1) : c[k] = LimbBase - 1
             THEN 1 ELSE 0)
        - (IF \E j \in 1..(i - 1) : c[j] = -1 /\ \A k \in (j + 1)..(i - 1) : c[k] = 0
             THEN 1 ELSE 0)) % LimbBase]

\* the limbs of the number with the n coefficients c, after as many steps
\* of carrying as their size asks for: one for the sum or the difference of
\* limbs, two for the products of a limb, three for the sums of products
NatCarry(c, n, steps) ==
  NatTrim(Rippled(<< >> \o [i \in 1..(n + steps) |->
                               IF steps = 1 THEN CarryOnce(c, i)
                               ELSE IF steps = 2 THEN CarryTwice(c, i)
                               ELSE CarryThrice(c, i)]))

NatAdd(a, b) ==
  NatCarry([i \in 1..(IF Len(a) > Len(b) THEN Len(a) ELSE Len(b)) |-> Limb(a, i) + Limb(b, i)],
           IF Len(a) > Len(b) THEN Len(a) ELSE Len(b), 1)

\* a - b for a >= b
NatSub(a, b) ==
  IF b = << >> THEN a
  ELSE NatCarry([i \in 1..Len(a) |-> a[i] - Limb(b, i)], Len(a), 1)

RECURSIVE Convolve(_, _, _, _, _)
\* the k-th coefficient of the product: the sum of a[i] * b[k + 1 - i] for
\* i from lo to hi
Convolve(a, b, k, lo, hi) ==
  IF lo > hi THEN 0
  ELSE IF lo = hi THEN a[lo] * b[k + 1 - lo]
  ELSE Convolve(a, b, k, lo, (lo + hi) \div 2) + Convolve(a, b, k, (lo + hi) \div 2 + 1, hi)

NatMul(a, b) ==
  IF a = << >> \/ b = << >> THEN << >>
  ELSE NatCarry([k \in 1..(Len(a) + Len(b) - 1) |->
                   Convolve(a, b, k, IF k > Len(b) THEN k + 1 - Len(b) ELSE 1,
                            IF k > Len(a) THEN Len(a) ELSE k)],
                Len(a) + Len(b) - 1, IF Len(a) = 1 \/ Len(b) = 1 THEN 2 ELSE 3)

\* a < b: the highest limb in which they differ is smaller in a
NatLess(a, b) ==
  IF Len(a) # Len(b) THEN Len(a) < Len(b)
  ELSE \E i \in 1..Len(a) : a[i] < b[i] /\ \A j \in (i + 1)..Len(a) : a[j] = b[j]

\* a natural below LimbBase
NatOfSmall(n) == IF n = 0 THEN << >> ELSE <<n>>

\* the quotient of r by b for r < b * LimbBase: the estimate from the
\* leading limbs is the quotient or a little above it
QuotientLimb(r, b) ==
  LET n == Len(b)
      leadB == Limb(b, n) * LimbBase + Limb(b, n - 1)
      leadR == (Limb(r, n + 1) * LimbBase + Limb(r, n)) * LimbBase + Limb(r, n - 1)
      estimate == IF leadR \div leadB < LimbBase THEN leadR \div leadB ELSE LimbBase - 1
  IN IF ~NatLess(r, NatMul(b, NatOfSmall(estimate))) THEN estimate
     ELSE IF ~NatLess(r, NatMul(b, NatOfSmall(estimate - 1))) THEN estimate - 1
     ELSE estimate - 2

\* the digit d of the quotient after the digits of the higher limbs, for
\* the remainder r1 with the next limb brought down
NatDivDigit(higher, r1, b, d) ==
  [q |-> <<d>> \o higher.q, r |-> NatSub(r1, NatMul(b, NatOfSmall(d)))]

NatDivStep(higher, r1, b) == NatDivDigit(higher, r1, b, QuotientLimb(r1, b))

RECURSIVE NatDivFrom(_, _, _, _)
\* long division of the limbs i, i-1, ..., 1 of a by b, after the division
\* of the higher limbs, whose remainder is below b
NatDivFrom(a, b, i, higher) ==
  IF i = 0 \/ ~NatLess(higher.r, b) THEN higher
  ELSE NatDivFrom(a, b, i - 1, NatDivStep(higher, NatTrim(<<a[i]>> \o higher.r), b))

\* the quotient without its high zero limbs
NatDivDone(whole) == [q |-> NatTrim(whole.q), r |-> whole.r]

\* quotient and remainder of a by b > 0; the Len(b) - 1 high limbs of a
\* are the first remainder
NatDivMod(a, b) ==
  IF Len(a) < Len(b) THEN [q |-> << >>, r |-> a]
  ELSE NatDivDone(NatDivFrom(a, b, Len(a) - Len(b) + 1,
                             [q |-> << >>,
                              r |-> NatTrim(SubSeq(a, Len(a) - Len(b) + 2, Len(a)))]))

\* the limbs of an integer of the machine, 0 <= n < 2^31
NatOfInt(n) ==
  NatTrim(<<n % LimbBase, (n \div LimbBase) % LimbBase,
            (n \div (LimbBase * LimbBase)) % LimbBase,
            n \div (LimbBase * LimbBase * LimbBase)>>)

RECURSIVE NatPow2(_)
NatPow2(k) ==
  IF k <= 30 THEN NatOfInt(2 ^ k)
  ELSE With(NatPow2(k \div 2), LAMBDA half :
         NatMul(NatMul(half, half), <<2 ^ (k % 2)>>))

NatPow10(k) ==
  [i \in 1..(k \div 3 + 1) |->
     IF i <= k \div 3 THEN 0 ELSE (IF k % 3 = 0 THEN 1 ELSE IF k % 3 = 1 THEN 10 ELSE 100)]

\* the natural written as the decimal digits s
NatOfDigits(s) ==
  NatTrim([i \in 1..((Len(s) + 2) \div 3) |->
             SmallValue(SubSeq(s, (IF Len(s) - 3 * i + 1 < 1 THEN 1 ELSE Len(s) - 3 * i + 1),
                               Len(s) - 3 * (i - 1)))])

RECURSIVE LimbDigits(_, _, _)
\* the limbs hi, hi-1, ..., lo of a as decimal digits, three per limb
LimbDigits(a, hi, lo) ==
  IF hi < lo THEN ""
  ELSE IF hi = lo
    THEN (IF a[hi] < 10 THEN "00" ELSE IF a[hi] < 100 THEN "0" ELSE "") \o DecimalString(a[hi])
  ELSE LimbDigits(a, hi, (hi + lo) \div 2 + 1) \o LimbDigits(a, (hi + lo) \div 2, lo)

\* the decimal digits of a natural
DigitsOfNat(a) ==
  IF a = << >> THEN "0"
  ELSE DecimalString(a[Len(a)]) \o LimbDigits(a, Len(a) - 1, 1)

\* the number of decimal digits of a positive natural
NatDigits(a) == 3 * (Len(a) - 1) + Len(DecimalString(a[Len(a)]))

\* the * of two non-negative BigInts, exact at every size
BigMul(a, b) == DigitsOfNat(NatMul(NatOfDigits(a), NatOfDigits(b)))

RECURSIVE ZerosOf(_)
ZerosOf(n) ==
  IF n <= 0 THEN ""
  ELSE IF n % 2 = 1 THEN "0" \o ZerosOf(n - 1)
  ELSE With(ZerosOf(n \div 2), LAMBDA half : half \o half)

\* while (str.length <= decimals) { str = Zeros + str; }
PadWhole(str, decimals) ==
  IF Len(str) <= decimals THEN ZerosOf(decimals + 1 - Len(str)) \o str ELSE str

\* while (str[0] === "0" && str[1] !== ".") { str = str.substring(1); }
TrimWhole(str) ==
  SubSeq(str,
         CHOOSE i \in 1..Len(str) :
           /\ ~(CharAt(str, i) = "0" /\ CharAt(str, i + 1) # ".")
           /\ \A j \in 1..(i - 1) : CharAt(str, j) = "0" /\ CharAt(str, j + 1) # ".",
         Len(str))

\* while (str[str.length - 1] === "0" && str[str.length - 2] !== ".") { ... }
TrimFraction(str) ==
  SubSeq(str, 1,
         CHOOSE i \in 2..Len(str) :
           /\ ~(CharAt(str, i) = "0" /\ CharAt(str, i - 1) # ".")
           /\ \A j \in (i + 1)..Len(str) : CharAt(str, j) = "0" /\ CharAt(str, j - 1) # ".")

\* ethers.formatUnits(value, decimals) for a non-negative value and
\* decimals > 0: the decimal point is put `decimals` digits from the end,
\* one whole digit and one fractional digit at least are kept
formatUnits(value, decimals) ==
  LET padded == PadWhole(value, decimals)
      index == Len(padded) - decimals
      pointed == SubSeq(padded, 1, index) \o "." \o SubSeq(padded, index + 1, Len(padded))
  IN TrimFraction(TrimWhole(pointed))

\* variant: the amount is formatted in gwei (9 decimals)
formatEther_Gwei(wei) == formatUnits(wei, 9)

formatEther(wei) == formatUnits(wei, 18)

\* GasOptimizer.calculateGasCost on transaction.gasUsed and .gasPrice
calculateGasCost(gasUsedArg, gasPriceArg) ==
  LET gasUsed == BigInt(gasUsedArg)
      gasPrice == BigInt(gasPriceArg)
  IN IF gasUsed.kind = "throw" THEN gasUsed
     ELSE IF gasPrice.kind = "throw" THEN gasPrice
     ELSE LET gasCostWei == BigMul(gasUsed.value, gasPrice.value)
          IN Return(formatEther(gasCostWei))

(***************************************************************************)
(* BaseTransactionAnalyzer.calculateGasEfficiency: the gas efficiency      *)
(* rating.  usagePercentage = gasUsed / gasLimit * 100 is kept as the      *)
(* fraction (100 * gasUsed) / gasLimit, so a threshold test is the exact   *)
(* comparison of 100 * gasUsed with threshold * gasLimit.                  *)
(***************************************************************************)
UndefinedPercentage == [defined |-> FALSE, numerator |-> 0, denominator |-> 1]

usagePercentage(gasUsed, gasLimit) ==
  [defined |-> TRUE, numerator |-> 100 * gasUsed, denominator |-> gasLimit]

\* percentage >= threshold, for a defined percentage
AtLeast(percentage, threshold) ==
  percentage.numerator >= threshold * percentage.denominator

\* variant: the thresholds are strict
ratingOf_Strict(percentage) ==
  IF ~percentage.defined THEN "Average"
  ELSE IF percentage.numerator > 90 * percentage.denominator THEN "Excellent"
  ELSE IF percentage.numerator > 70 * percentage.denominator THEN "Good"
  ELSE IF percentage.numerator > 40 * percentage.denominator THEN "Average"
  ELSE "Poor"

ratingOf(percentage) ==
  IF ~percentage.defined THEN "Average"
  ELSE IF AtLeast(percentage, 90) THEN "Excellent"
  ELSE IF AtLeast(percentage, 70) THEN "Good"
  ELSE IF AtLeast(percentage, 40) THEN "Average"
  ELSE "Poor"

\* gasLimit is a record: known or not, and its value when known
calculateGasEfficiency(gasUsed, gasLimit) ==
  LET percentage == IF gasLimit.known /\ gasLimit.value > 0
                      THEN usagePercentage(gasUsed, gasLimit.value)
                      ELSE UndefinedPercentage
  IN Return([usagePercentage |-> percentage, rating |-> ratingOf(percentage)])

(***************************************************************************)
(* JavaScript numbers of GasOptimizer: IEEE 754 doubles, computed exactly. *)
(* A non-negative double is m * 2^e with 2^52 <= m < 2^53, or zero.        *)
(***************************************************************************)
Double(m, e) == [kind |-> "double", m |-> m, e |-> e]

DoubleZero == Double(<< >>, 0)

\* (p / q) * 2^k as a fraction
Shift(p, q, k) ==
  IF k >= 0 THEN [num |-> NatMul(p, NatPow2(k)), den |-> q]
  ELSE [num |-> p, den |-> NatMul(q, NatPow2(0 - k))]

\* floor(log2(p / q)) for positive p and q
Log2Floor(p, q) ==
  LET d == NatDigits(p) - NatDigits(q)
      lo == ((d - 1) * 33219) \div 10000 - 1
      hi == ((d + 1) * 33220) \div 10000 + 1
  IN CHOOSE L \in lo..hi :
       With(Shift(p, q, 0 - L), LAMBDA s :
         ~NatLess(s.num, s.den) /\ NatLess(s.num, NatMul(<<2>>, s.den)))

\* the significand m at the exponent e, or the next power of two
Normal(m, e) == IF m = NatPow2(53) THEN Double(NatPow2(52), e + 1) ELSE Double(m, e)

\* the quotient dm.q of a division by den, or the integer above it if the
\* remainder dm.r is above den / 2 or is den / 2 and the quotient is odd
NearestInteger(dm, twice, den) ==
  IF NatLess(den, twice) \/ (twice = den /\ Limb(dm.q, 1) % 2 = 1)
    THEN NatAdd(dm.q, <<1>>)
    ELSE dm.q

\* the double nearest to the fraction s * 2^e for 2^52 <= s < 2^53
NearestAt(s, e) ==
  With(NatDivMod(s.num, s.den), LAMBDA dm :
    Normal(NearestInteger(dm, NatMul(<<2>>, dm.r), s.den), e))

RoundAt(p, q, e) == NearestAt(Shift(p, q, 0 - e), e)

\* the double nearest to p / q, ties to the even significand
RoundToDouble(p, q) ==
  IF p = << >> THEN DoubleZero ELSE RoundAt(p, q, Log2Floor(p, q) - 52)

\* the exact value of a double as a fraction
Num(d) == IF d.e >= 0 THEN NatMul(d.m, NatPow2(d.e)) ELSE d.m
Den(d) == IF d.e >= 0 THEN <<1>> ELSE NatPow2(0 - d.e)

DoubleOfNat(n) == RoundToDouble(n, <<1>>)

\* a < b; a comparison with NaN is false
DoubleLess(a, b) ==
  IF a.kind # "double" \/ b.kind # "double" THEN FALSE
  ELSE NatLess(NatMul(Num(a), Den(b)), NatMul(Num(b), Den(a)))

\* a + b; NaN if an operand is NaN
DoubleAdd(a, b) ==
  IF a.kind # "double" \/ b.kind # "double" THEN NaN
  ELSE RoundToDouble(NatAdd(NatMul(Num(a), Den(b)), NatMul(Num(b), Den(a))),
                     NatMul(Den(a), Den(b)))

\* a - b for a >= b; NaN if an operand is NaN
DoubleSub(a, b) ==
  IF a.kind # "double" \/ b.kind # "double" THEN NaN
  ELSE RoundToDouble(NatSub(NatMul(Num(a), Den(b)), NatMul(Num(b), Den(a))),
                     NatMul(Den(a), Den(b)))

\* a * b; NaN if an operand is NaN, Infinity * b is Infinity for b > 0
DoubleMul(a, b) ==
  IF a.kind = "infinity" /\ b.kind = "double" /\ b # DoubleZero THEN a
  ELSE IF a.kind # "double" \/ b.kind # "double" THEN NaN
  ELSE RoundToDouble(NatMul(Num(a), Num(b)), NatMul(Den(a), Den(b)))

\* a / b; NaN if an operand is NaN, 0 / 0 is NaN, x / 0 is Infinity
DoubleDiv(a, b) ==
  IF a.kind # "double" \/ b.kind # "double" THEN NaN
  ELSE IF b = DoubleZero THEN (IF a = DoubleZero THEN NaN ELSE Infinity(1))
  ELSE RoundToDouble(NatMul(Num(a), Den(b)), NatMul(Den(a), Num(b)))

\* Math.min of two non-negative numbers; NaN if one is NaN
MathMin(a, b) ==
  IF a.kind # "double" \/ b.kind # "double" THEN NaN
  ELSE IF DoubleLess(b, a) THEN b ELSE a

IndexOf(s, c) ==
  IF \E i \in 1..Len(s) : CharAt(s, i) = c
    THEN CHOOSE i \in 1..Len(s) : CharAt(s, i) = c /\ \A j \in 1..(i - 1) : CharAt(s, j) # c
    ELSE 0

\* the double nearest to the decimal digits with the point `scale` places
\* to the right of their end
ParsedDigits(digits, scale) ==
  RoundToDouble(IF scale >= 0 THEN NatMul(digits, NatPow10(scale)) ELSE digits,
                IF scale >= 0 THEN <<1>> ELSE NatPow10(0 - scale))

\* the double written by the digits before and after the point and the
\* decimal exponent
ParsedParts(whole, fraction, exponent) ==
  ParsedDigits(NatOfDigits(whole \o fraction), exponent - Len(fraction))

ParsedMantissa(mantissa, point, exponent) ==
  ParsedParts(IF point = 0 THEN mantissa ELSE SubSeq(mantissa, 1, point - 1),
              IF point = 0 THEN "" ELSE slice(mantissa, point),
              exponent)

\* the literal s with its exponent part, if any, at ePos
ParsedLiteral(s, ePos) ==
  ParsedMantissa(IF ePos = 0 THEN s ELSE SubSeq(s, 1, ePos - 1),
                 IndexOf(IF ePos = 0 THEN s ELSE SubSeq(s, 1, ePos - 1), "."),
                 IF ePos = 0 THEN 0
                 ELSE IF CharAt(s, ePos + 1) = "-" THEN 0 - SmallValue(slice(s, ePos + 1))
                 ELSE IF CharAt(s, ePos + 1) = "+" THEN SmallValue(slice(s, ePos + 1))
                 ELSE SmallValue(slice(s, ePos)))

\* parseFloat of a decimal literal: digits, an optional fraction and an
\* optional exponent part e+N or e-N
parseFloat(s) ==
  IF s = "" \/ s = "NaN" THEN NaN ELSE ParsedLiteral(s, IndexOf(s, "e"))

\* d * 10^k as a fraction
Scaled(d, k) ==
  IF k >= 0 THEN [num |-> NatMul(Num(d), NatPow10(k)), den |-> Den(d)]
  ELSE [num |-> Num(d), den |-> NatMul(Den(d), NatPow10(0 - k))]

\* the n with 10^(n-1) <= d < 10^n, for a positive double
DecimalExponent(d) ==
  LET lo == ((d.e + 52) * 30102) \div 100000 - 1
      hi == ((d.e + 53) * 30103) \div 100000 + 2
  IN CHOOSE n \in lo..hi :
       With(Scaled(d, 1 - n), LAMBDA below :
         ~NatLess(below.num, below.den) /\ NatLess(below.num, NatMul(<<10>>, below.den)))

\* x < y for fractions
FractionLess(x, y) == NatLess(NatMul(x.num, y.den), NatMul(y.num, x.den))

\* the midpoint between the double d and the double below it, which is
\* half as far if d is a power of two
LowerMidpoint(d) ==
  Shift(NatSub(NatMul(<<4>>, d.m), IF d.m = NatPow2(52) THEN <<1>> ELSE <<2>>), <<1>>, d.e - 2)

\* the midpoint between the double d and the double above it
UpperMidpoint(d) == Shift(NatAdd(NatMul(<<4>>, d.m), <<2>>), <<1>>, d.e - 2)

\* the fraction v rounds to the double d: it is between the midpoints, or
\* is a midpoint and the significand of d is even
RoundsTo(v, d) ==
  IF Limb(d.m, 1) % 2 = 0
    THEN ~FractionLess(v, LowerMidpoint(d)) /\ ~FractionLess(UpperMidpoint(d), v)
    ELSE FractionLess(LowerMidpoint(d), v) /\ FractionLess(v, UpperMidpoint(d))

\* s * 10^(n - k) reads back as the double d
ReadBack(s, n, k, d) ==
  RoundsTo([num |-> IF n - k >= 0 THEN NatMul(s, NatPow10(n - k)) ELSE s,
            den |-> IF n - k >= 0 THEN <<1>> ELSE NatPow10(k - n)], d)

\* of the quotient dm.q and the integer above it, nearest first, those that
\* read back as d
ReadingBack(d, n, k, dm, twice, den) ==
  SelectSeq(IF NatLess(den, twice) \/ (twice = den /\ Limb(dm.q, 1) % 2 = 1)
              THEN <<NatAdd(dm.q, <<1>>), dm.q>>
              ELSE <<dm.q, NatAdd(dm.q, <<1>>)>>,
            LAMBDA s : ReadBack(s, n, k, d))

NearestTo(d, n, k, scaled) ==
  With(NatDivMod(scaled.num, scaled.den), LAMBDA dm :
    ReadingBack(d, n, k, dm, NatMul(<<2>>, dm.r), scaled.den))

\* the integers s next to d * 10^(k - n) that read back as d, nearest first
DigitCandidates(d, n, k) == NearestTo(d, n, k, Scaled(d, k - n))

Least(S) == CHOOSE k \in S : \A j \in S : k <= j

\* the least k in lo..hi for which k digits read back as d
LeastDigits(d, n, lo, hi) == Least({k \in lo..hi : DigitCandidates(d, n, k) # << >>})

\* the digits without the zeros at their end, one digit at least
StripZerosRight(s) ==
  SubSeq(s, 1,
         CHOOSE i \in 1..Len(s) :
           /\ i = 1 \/ CharAt(s, i) # "0"
           /\ \A j \in (i + 1)..Len(s) : CharAt(s, j) = "0")

\* Number.prototype.toString of a non-negative double: the fewest digits
\* that read back as the number, in positional or exponent notation
NumberToString(d) ==
  IF d.kind # "double" THEN "NaN"
  ELSE IF d = DoubleZero THEN "0"
  ELSE With(DecimalExponent(d), LAMBDA n0 :
       With(LeastDigits(d, n0, 1, 17), LAMBDA k0 :
       With(DigitsOfNat(DigitCandidates(d, n0, k0)[1]), LAMBDA all :
       With(StripZerosRight(all), LAMBDA digits :
         LET n == n0 + (Len(all) - k0)
             k == Len(digits)
             exponent == IF n - 1 < 0 THEN "e-" \o DecimalString(1 - n)
                         ELSE "e+" \o DecimalString(n - 1)
         IN IF k <= n /\ n <= 21 THEN digits \o ZerosOf(n - k)
            ELSE IF 0 < n /\ n <= 21
              THEN SubSeq(digits, 1, n) \o "." \o SubSeq(digits, n + 1, k)
            ELSE IF -6 < n /\ n <= 0 THEN "0." \o ZerosOf(0 - n) \o digits
            ELSE IF k = 1 THEN digits \o exponent
            ELSE SubSeq(digits, 1, 1) \o "." \o SubSeq(digits, 2, k) \o exponent))))

(***************************************************************************)
(* DeFiProtocolAnalyzer.getImpermanentLossCalculation.  A number is a      *)
(* double, the negative of a double (of zero too), an infinity or NaN; the *)
(* operations round to the nearest double, as those of the program do.     *)
(***************************************************************************)
Negative(d) == [kind |-> "negative", m |-> d.m, e |-> d.e]

\* the number of the magnitude d, a double or Infinity, with the sign
WithSign(sign, d) ==
  IF d.kind = "double" THEN (IF sign < 0 THEN Negative(d) ELSE d)
  ELSE IF d.kind = "infinity" THEN Infinity(sign)
  ELSE NaN

SignOf(x) ==
  IF x.kind = "negative" \/ (x.kind = "infinity" /\ x.value < 0) THEN -1 ELSE 1

MathAbs(x) ==
  IF x.kind = "negative" THEN Double(x.m, x.e)
  ELSE IF x.kind = "infinity" THEN Infinity(1)
  ELSE x

\* the number of an integer of the machine
NumberOf(n) ==
  IF n < 0 THEN Negative(DoubleOfNat(NatOfInt(0 - n))) ELSE DoubleOfNat(NatOfInt(n))

\* x / y: NaN for 0 / 0 and Infinity / Infinity, an infinity for x / 0
Divide(x, y) ==
  IF x.kind = "nan" \/ y.kind = "nan" THEN NaN
  ELSE IF x.kind = "infinity"
    THEN (IF y.kind = "infinity" THEN NaN ELSE Infinity(SignOf(x) * SignOf(y)))
  ELSE IF y.kind = "infinity" THEN WithSign(SignOf(x) * SignOf(y), DoubleZero)
  ELSE WithSign(SignOf(x) * SignOf(y), DoubleDiv(MathAbs(x), MathAbs(y)))

\* x * y: NaN for Infinity * 0
Times(x, y) ==
  IF x.kind = "nan" \/ y.kind = "nan" THEN NaN
  ELSE IF x.kind = "infinity" \/ y.kind = "infinity"
    THEN (IF MathAbs(x) = DoubleZero \/ MathAbs(y) = DoubleZero THEN NaN
          ELSE Infinity(SignOf(x) * SignOf(y)))
  ELSE WithSign(SignOf(x) * SignOf(y), DoubleMul(MathAbs(x), MathAbs(y)))

\* x + y for numbers of which one is finite: the sum of the magnitudes under
\* a common sign, else their difference under the sign of the larger, and
\* zero when they are equal
Plus(x, y) ==
  IF x.kind = "nan" \/ y.kind = "nan" THEN NaN
  ELSE IF x.kind = "infinity" THEN x
  ELSE IF y.kind = "infinity" THEN y
  ELSE IF SignOf(x) = SignOf(y) THEN WithSign(SignOf(x), DoubleAdd(MathAbs(x), MathAbs(y)))
  ELSE IF DoubleLess(MathAbs(x), MathAbs(y))
    THEN WithSign(SignOf(y), DoubleSub(MathAbs(y), MathAbs(x)))
  ELSE IF DoubleLess(MathAbs(y), MathAbs(x))
    THEN WithSign(SignOf(x), DoubleSub(MathAbs(x), MathAbs(y)))
  ELSE DoubleZero

\* x - y
Minus(x, y) == Plus(x, WithSign(0 - SignOf(y), MathAbs(y)))

RECURSIVE NatSqrtFrom(_, _)
\* the largest natural whose square is at most n, by Newton's iteration
\* from an estimate x that is not below it
NatSqrtFrom(n, x) ==
  With(NatDivMod(NatAdd(x, NatDivMod(n, x).q), <<2>>).q, LAMBDA y :
    IF NatLess(y, x) THEN NatSqrtFrom(n, y) ELSE x)

\* the root r of 54 bits cut to 53: the half of r, or the integer above it
\* when r is odd and the root is above r or the half is odd
RootRounded(n, r, half, t) ==
  Normal(IF half.r # << >> /\ (NatMul(r, r) # n \/ Limb(half.q, 1) % 2 = 1)
           THEN NatAdd(half.q, <<1>>)
           ELSE half.q,
         t + 1)

RootAt(n, t) ==
  With(NatSqrtFrom(n, NatPow2(54)), LAMBDA r :
    RootRounded(n, r, NatDivMod(r, <<2>>), t))

\* the double nearest to the square root of the positive double d, which is
\* the root of d.m * 2^(54 + k) times 2^((d.e - 54 - k) / 2) for k = 0 or 1
RootOf(d, k) == RootAt(NatMul(d.m, NatPow2(54 + k)), (d.e - 54 - k) \div 2)

\* Math.sqrt: NaN below zero, and the number itself for a zero of either
\* sign and for Infinity
MathSqrt(x) ==
  IF x.kind = "infinity" THEN (IF x.value > 0 THEN x ELSE NaN)
  ELSE IF x.kind = "nan" THEN NaN
  ELSE IF MathAbs(x) = DoubleZero THEN x
  ELSE IF x.kind = "negative" THEN NaN
  ELSE RootOf(x, (x.e - 54) % 2)

\* (2 * Math.sqrt(priceRatio)) / (1 + priceRatio) - 1
ImpermanentLoss(priceRatio) ==
  Minus(Divide(Times(NumberOf(2), MathSqrt(priceRatio)), Plus(NumberOf(1), priceRatio)),
        NumberOf(1))

\* variant: the loss is returned with its sign, without Math.abs
getImpermanentLossCalculation_Signed(poolAddress, entryPrice, currentPrice) ==
  Return(Times(ImpermanentLoss(Divide(NumberOf(currentPrice), NumberOf(entryPrice))),
               NumberOf(100)))

\* the promise always resolves: no statement of the body can throw
getImpermanentLossCalculation(poolAddress, entryPrice, currentPrice) ==
  Return(Times(MathAbs(ImpermanentLoss(Divide(NumberOf(currentPrice),
                                              NumberOf(entryPrice)))),
               NumberOf(100)))

(***************************************************************************)
(* GasOptimizer.analyzeGasUsage.  A transaction is its gasUsed and         *)
(* gasPrice, strings of decimal digits, and its logs (hasLogs tells        *)
(* whether the field is there).  BigInt arithmetic is exact, Number        *)
(* arithmetic is that of doubles.                                          *)
(***************************************************************************)
BASE_GAS_PRICE_GWEI == parseFloat("0.1")
OPTIMAL_GAS_USAGE_THRESHOLD == parseFloat("0.7")

\* the / of two non-negative BigInts, for a divisor that is not zero
BigDiv(a, b) == DigitsOfNat(NatDivMod(NatOfDigits(a), NatOfDigits(b)).q)

\* a - b for BigInts a >= b >= 0
BigSub(a, b) == DigitsOfNat(NatSub(NatOfDigits(a), NatOfDigits(b)))

BigLessOrEqual(a, b) == ~NatLess(NatOfDigits(b), NatOfDigits(a))

\* Number(bigint)
NumberOfBigInt(a) == DoubleOfNat(NatOfDigits(a))

\* ethers.parseUnits(value, decimals) for a decimal literal with at most
\* `decimals` fraction digits
parseUnits(value, decimals) ==
  LET point == IndexOf(value, ".")
      whole == IF point = 0 THEN value ELSE SubSeq(value, 1, point - 1)
      fraction == IF point = 0 THEN "" ELSE slice(value, point)
  IN Normalize(whole \o fraction \o ZerosOf(decimals - Len(fraction)))

\* ethers.parseUnits(this.BASE_GAS_PRICE_GWEI.toString(), 'gwei')
OptimalGasPrice == parseUnits(NumberToString(BASE_GAS_PRICE_GWEI), 9)

calculateGasPriceSavings(transaction) ==
  LET currentGasPrice == BigInt(transaction.gasPrice).value
      gasUsed == BigInt(transaction.gasUsed).value
  IN IF BigLessOrEqual(currentGasPrice, OptimalGasPrice) THEN "0"
     ELSE formatEther(BigMul(BigSub(currentGasPrice, OptimalGasPrice), gasUsed))

\* ethers.formatUnits rejects the empty string, which BigInt reads as 0n
analyzeGasPrice(transaction) ==
  IF transaction.gasPrice = "" THEN Throw("invalid BigNumberish string")
  ELSE LET gasPriceGwei == parseFloat(formatUnits(Normalize(transaction.gasPrice), 9))
       IN IF DoubleLess(DoubleMul(BASE_GAS_PRICE_GWEI, DoubleOfNat(<<2>>)), gasPriceGwei)
            THEN Return([type |-> "gas_price",
                         potentialSavings |-> calculateGasPriceSavings(transaction),
                         confidence |-> "high"])
            ELSE ReturnNull

calculateGasLimitSavings(transaction) ==
  LET gasUsed == BigInt(transaction.gasUsed).value
      gasPrice == BigInt(transaction.gasPrice).value
      potentialSavings == BigDiv(BigMul(BigMul(gasUsed, gasPrice), "5"), "100")
  IN formatEther(potentialSavings)

\* variant: the estimated limit is 150% of the gas used
analyzeGasLimit_WiderEstimate(transaction) ==
  LET gasUsed == BigInt(transaction.gasUsed).value
      estimatedGasLimit == BigDiv(BigMul(gasUsed, "150"), "100")
  IN IF estimatedGasLimit = "0" THEN Throw("RangeError: Division by zero")
     ELSE LET gasUsageRatio ==
                DoubleDiv(NumberOfBigInt(BigDiv(BigMul(gasUsed, "100"), estimatedGasLimit)),
                          DoubleOfNat(<<100>>))
          IN IF DoubleLess(gasUsageRatio, OPTIMAL_GAS_USAGE_THRESHOLD)
               THEN Return([type |-> "gas_limit",
                            potentialSavings |-> calculateGasLimitSavings(transaction),
                            confidence |-> "medium"])
               ELSE ReturnNull

\* the division of BigInts by 0n throws a RangeError
analyzeGasLimit(transaction) ==
  LET gasUsed == BigInt(transaction.gasUsed).value
      estimatedGasLimit == BigDiv(BigMul(gasUsed, "120"), "100")
  IN IF estimatedGasLimit = "0" THEN Throw("RangeError: Division by zero")
     ELSE LET gasUsageRatio ==
                DoubleDiv(NumberOfBigInt(BigDiv(BigMul(gasUsed, "100"), estimatedGasLimit)),
                          DoubleOfNat(<<100>>))
          IN IF DoubleLess(gasUsageRatio, OPTIMAL_GAS_USAGE_THRESHOLD)
               THEN Return([type |-> "gas_limit",
                            potentialSavings |-> calculateGasLimitSavings(transaction),
                            confidence |-> "medium"])
               ELSE ReturnNull

calculateBatchingSavings(operationCount) ==
  LET baseGasCost == 21000
      savedTransactions == operationCount - 1
      savedGas == savedTransactions * baseGasCost
  IN formatEther(BigMul(DecimalString(savedGas), OptimalGasPrice))

analyzeContractOptimization(transaction) ==
  IF ~transaction.hasLogs THEN ReturnNull
  ELSE IF Len(transaction.logs) = 0 THEN ReturnNull
  ELSE LET transferEvents ==
             SelectSeq(transaction.logs,
                       LAMBDA log : Len(log.topics) > 0
                                      /\ log.topics[1] = transferEventSignature)
       IN IF Len(transferEvents) > 3
            THEN Return([type |-> "batch_transactions",
                         potentialSavings |-> calculateBatchingSavings(Len(transferEvents)),
                         confidence |-> "high"])
            ELSE ReturnNull

RECURSIVE sumSavings(_, _)
\* suggestions.reduce((sum, suggestion) => sum + parseFloat(...), 0)
sumSavings(suggestions, sum) ==
  IF suggestions = << >> THEN sum
  ELSE sumSavings(Tail(suggestions),
                  DoubleAdd(sum, parseFloat(Head(suggestions).potentialSavings)))

calculateTotalSavings(suggestions, currentCost) ==
  LET totalSavings == sumSavings(suggestions, DoubleZero)
      maxSavings == DoubleMul(parseFloat(currentCost), parseFloat("0.9"))
  IN NumberToString(MathMin(totalSavings, maxSavings))

\* the suggestion of an analysis, if it made one
Pushed(suggestion) == IF suggestion.kind = "null" THEN << >> ELSE <<suggestion.value>>

\* the analysis with the total savings and the two costs as numbers
OptimizedGasUsage(currentGasCost, suggestions, totalSavings, cost, saved) ==
  Return([currentGasCost |-> currentGasCost,
          optimizedGasCost |-> NumberToString(DoubleSub(cost, saved)),
          totalSavings |-> totalSavings,
          savingsPercentage |-> DoubleMul(DoubleDiv(saved, cost), DoubleOfNat(<<100>>)),
          suggestions |-> suggestions])

SuggestedGasUsage(currentGasCost, suggestions) ==
  With(calculateTotalSavings(suggestions, currentGasCost), LAMBDA totalSavings :
    OptimizedGasUsage(currentGasCost, suggestions, totalSavings,
                      parseFloat(currentGasCost), parseFloat(totalSavings)))

\* the analysis after its three calls, the first of which that threw ends it
AnalyzedGasUsage(transaction, currentGasCost, gasPriceSuggestion, gasLimitSuggestion) ==
  IF currentGasCost.kind = "throw" THEN currentGasCost
  ELSE IF gasPriceSuggestion.kind = "throw" THEN gasPriceSuggestion
  ELSE IF gasLimitSuggestion.kind = "throw" THEN gasLimitSuggestion
  ELSE SuggestedGasUsage(currentGasCost.value,
                         Pushed(gasPriceSuggestion) \o Pushed(gasLimitSuggestion)
                           \o Pushed(analyzeContractOptimization(transaction)))

analyzeGasUsage(transaction) ==
  AnalyzedGasUsage(transaction,
                   calculateGasCost(transaction.gasUsed, transaction.gasPrice),
                   analyzeGasPrice(transaction),
                   analyzeGasLimit(transaction))

(***************************************************************************)
(* MockGasOptimizer.getOptimizationSuggestions.  efficiency =              *)
(* (gasUsed / gasLimit) * 100 is kept as the fraction (100 * gasUsed) /    *)
(* gasLimit for a positive gasLimit, and compared by cross-multiplication. *)
(***************************************************************************)
LimitTooHigh == "Gas limit is too high, consider reducing it"
LimitTooLow == "Gas limit is too low, increase it to avoid failures"
BreakDown == "Consider breaking down complex operations into smaller transactions"

getOptimizationSuggestions(gasUsed, gasLimit) ==
  (IF 100 * gasUsed < 50 * gasLimit THEN <<LimitTooHigh>> ELSE << >>)
    \o (IF 100 * gasUsed > 95 * gasLimit THEN <<LimitTooLow>> ELSE << >>)
    \o (IF gasUsed > 300000 THEN <<BreakDown>> ELSE << >>)

(***************************************************************************)
(* Inputs: what the provider can return                                    *)
(***************************************************************************)
UniswapRouter == "0x2626664c2603336E57B271c5C0b26F421741e481"
OpenSea == "0x00000000000000ADc04C56Bf30aC9d3c0aAF14dC"
UnknownAddress == "0x1234567890123456789012345678901234567890"
USDC == "0x833589fCD6eDb6E08f4c7C32D4f71b54bdA02913"
WETH == "0x4200000000000000000000000000000000000006"
NFTCollection == "0x1234567890123456789012345678901234567890"

\* every letter-casing under which the model presents an address
Casings(a) == {a, toLowerCase(a)}

Addresses ==
  Casings(UniswapRouter) \cup Casings(bridgeContracts.l1StandardBridge)
    \cup Casings(bridgeContracts.l2StandardBridge)
    \cup Casings(bridgeContracts.optimismPortal)
    \cup Casings(OpenSea) \cup {UnknownAddress}

ToValues == {NULL} \cup Addresses

\* an address as a 32-byte topic word
TopicUser == "0x000000000000000000000000742d35cc6634c0532925a3b8d4c9db96c4b4d8b6"
TopicRouter == "0x0000000000000000000000002626664c2603336e57b271c5c0b26f421741e481"
OtherSignature == "0xe1fffcc4923d04b559f4d29a8bfc6cda04eb5b0d3c460751c2402c5c5cc9109c"
ProvenMarker == "WithdrawalProven(bytes32,address,address)"
WordOne == "0x0000000000000000000000000000000000000000000000000000000000000001"
WordMillion == "0x00000000000000000000000000000000000000000000000000000000000f4240"

LogUSDCTransfer ==
  [address |-> USDC, topics |-> <<transferEventSignature, TopicUser, TopicRouter>>,
   data |-> WordMillion]
LogWETHTransfer ==
  [address |-> WETH, topics |-> <<transferEventSignature, TopicRouter, TopicUser>>,
   data |-> "0x0000000000000000000000000000000000000000000000000de0b6b3a7640000"]
LogNFTTransfer ==
  [address |-> NFTCollection,
   topics |-> <<transferEventSignature, TopicUser, TopicRouter, WordOne>>,
   data |-> "0x"]
LogOther ==
  [address |-> WETH, topics |-> <<OtherSignature, TopicUser>>, data |-> WordOne]
LogNoTopics ==
  [address |-> UnknownAddress, topics |-> << >>, data |-> "0x"]
LogBadData ==
  [address |-> USDC, topics |-> <<transferEventSignature, TopicUser, TopicRouter>>,
   data |-> "0x"]
LogBadAddress ==
  [address |-> USDC, topics |-> <<transferEventSignature, "0x1234", TopicRouter>>,
   data |-> WordMillion]
LogProven ==
  [address |-> bridgeContracts.optimismPortal, topics |-> <<ProvenMarker, TopicUser>>,
   data |-> "0x"]
LogProvenSecond ==
  [address |-> bridgeContracts.optimismPortal, topics |-> <<OtherSignature, ProvenMarker>>,
   data |-> "0x"]

LogSeq ==
  << LogUSDCTransfer, LogWETHTransfer, LogNFTTransfer, LogOther, LogNoTopics,
     LogBadData, LogBadAddress, LogProven, LogProvenSecond >>

Logs == {LogSeq[i] : i \in 1..Len(LogSeq)}

RECURSIVE SeqsUpTo(_, _)
\* all sequences over S of length at most n
SeqsUpTo(S, n) ==
  IF n = 0 THEN {<< >>}
  ELSE LET shorter == SeqsUpTo(S, n - 1)
       IN shorter \cup {Append(q, x) : q \in shorter, x \in S}

LogLists == SeqsUpTo(Logs, MaxLogs)

FoundTxs == {[found |-> TRUE, to |-> a, value |-> v] : a \in ToValues, v \in 0..MaxValue}
FoundReceipts == {[found |-> TRUE, logs |-> l] : l \in LogLists}

Txs == {NoTx} \cup FoundTxs
Receipts == {NoReceipt} \cup FoundReceipts
Providers == {"ok", "reject", "noBlock"}

\* inputs of the operations that do not read the value or the log list
ZeroValueTxs == {t \in Txs : t.value = 0}
FoundZeroValueTxs == {t \in FoundTxs : t.value = 0}
ShortReceipts == {r \in Receipts : Len(r.logs) <= 1}

\* arguments of the registry lookups: every registered address as written,
\* lower-cased and upper-cased, cut short, extended and without its prefix,
\* an unregistered address, the empty string, and token symbols
RegisteredAddresses ==
  {BASE_CONTRACTS[i].address : i \in 1..Len(BASE_CONTRACTS)}
    \cup {BASE_TOKENS[i].address : i \in 1..Len(BASE_TOKENS)}

AllCasings(a) == {a, toLowerCase(a), "0x" \o toUpperCase(slice(a, 2))}

PartialsOf(a) == {SubSeq(a, 1, Len(a) - 1), a \o "0", slice(a, 2)}

LookupArguments ==
  UNION {AllCasings(a) \cup PartialsOf(a) : a \in RegisteredAddresses}
    \cup {UnknownAddress, "", "USDC", "usdc", "USDbC", "USD"}

\* gas used and gas price (wei) of a transaction, as decimal strings: from
\* nothing to a full block at a price of one ether per gas
GasUsedValues == {"0", "1", "21000", "150000", "29999999", "30000000"}
GasPriceValues ==
  {"0", "1", "1000000", "100000000", "20000000000", "123456789012345678",
   "999999999999999999", "1000000000000000000"}

\* gas used and gas limit of the rating: the limit of a plain transfer and
\* a round one, gas used on, just below and between the thresholds
UnknownGasLimit == [known |-> FALSE, value |-> 0]
GasLimits == {UnknownGasLimit} \cup {[known |-> TRUE, value |-> v] : v \in {0, 21000, 100000}}
GasUsedOfLimit ==
  {0, 1, 5000, 8399, 8400, 8401, 14699, 14700, 14701, 18899, 18900, 18901,
   21000, 39999, 40000, 69999, 70000, 89999, 90000, 100000}

\* a transaction does not use more gas than its limit
GasEfficiencyInputs ==
  {a \in [gasUsed : GasUsedOfLimit, gasLimit : GasLimits] :
     (a.gasLimit.known /\ a.gasLimit.value > 0) => a.gasUsed <= a.gasLimit.value}

\* entry and current prices of a pool position, in whole dollars
Prices == {-2500, -2000, 0, 1500, 2000, 2500}

\* gas used and gas limit given to the suggestions: the values of the
\* tests and their neighbours on each threshold
SuggestionInputs ==
  {a \in [gasUsed : {0, 50000, 99999, 100000, 100001, 150000, 189999, 190000, 190001,
                     200000, 250000, 300000, 300001, 400000, 474999, 475000, 475001,
                     500000},
          gasLimit : {200000, 500000}] : a.gasUsed <= a.gasLimit}

\* the blocks the provider holds: a native transfer and a swap; a contract
\* call; a deployment and an empty call
User == "0x742d35Cc6634C0532925A3B8D4C9dB96C4B4d8B6"

Chain == <<
  [transactions |-> <<
     [from |-> User, to |-> UnknownAddress, value |-> 1, logs |-> << >>],
     [from |-> User, to |-> UniswapRouter, value |-> 0,
      logs |-> <<LogUSDCTransfer, LogWETHTransfer>>] >>],
  [transactions |-> <<
     [from |-> UnknownAddress, to |-> WETH, value |-> 0, logs |-> <<LogOther>>] >>],
  [transactions |-> <<
     [from |-> User, to |-> NULL, value |-> 0, logs |-> << >>],
     [from |-> UnknownAddress, to |-> User, value |-> 0, logs |-> << >>] >>] >>

BlockNumbers == 1..Len(Chain)

\* no fetch of the report has failed
NoFailure == [n \in BlockNumbers |-> Len(Chain[n].transactions) + 1]

\* the block numbers collectNetworkMetrics is called with: two blocks the
\* provider holds and one it does not
CollectBlocks == {1, 2, Len(Chain) + 1}

\* since the cache was last cleared: how often the provider was asked for a
\* block, the metrics the calls for the block have returned, and whether
\* clearCache has run with no call for the block started after it
NoHistory ==
  [asked |-> [n \in CollectBlocks |-> 0],
   returned |-> [n \in CollectBlocks |-> {}],
   afterClear |-> [n \in CollectBlocks |-> FALSE]]

\* the transactions the collector classifies, with their receipts
ChainTransactions ==
  UNION {{Chain[n].transactions[i] : i \in 1..Len(Chain[n].transactions)} :
           n \in BlockNumbers}

\* what the provider holds under the hashes the analyses ask for: each
\* transaction with each receipt, of one log at most or of any log list
ProviderHolds == ZeroValueTxs \X ShortReceipts
ProviderHoldsLogs == ZeroValueTxs \X Receipts

\* the transactions of the chain with their receipts
ChainHolds ==
  {<<[found |-> TRUE, to |-> t.to, value |-> t.value], [found |-> TRUE, logs |-> t.logs]>> :
     t \in ChainTransactions}

\* the logs appended to a receipt while a call holds it: a token transfer
\* and another event
GrownLogs == {LogUSDCTransfer, LogOther}

\* the transactions GasOptimizer analyzes: gas used from nothing to a full
\* block, gas prices around the 0.2 gwei of the price suggestion and the
\* 1 gwei from which the savings reach the cap, and for two amounts of gas
\* the four token transfers of the batching suggestion
AnalyzedGasUsed == {"0", "1", "2", "5", "9", "21000", "150000", "30000000"}
AnalyzedGasPrices ==
  {"0", "1", "100000000", "200000000", "200000001", "1000000000", "20000000000",
   "123456789012345678"}
AnalyzedLogs ==
  {[hasLogs |-> FALSE, logs |-> << >>],
   [hasLogs |-> TRUE,
    logs |-> <<LogUSDCTransfer, LogUSDCTransfer, LogWETHTransfer, LogWETHTransfer, LogOther>>]}

GasTransactions ==
  {t \in {[gasUsed |-> g, gasPrice |-> p, hasLogs |-> l.hasLogs, logs |-> l.logs] :
            g \in AnalyzedGasUsed, p \in AnalyzedGasPrices, l \in AnalyzedLogs} :
     t.hasLogs => t.gasUsed \in {"5", "150000"}}

(***************************************************************************)
(* Calls                                                                   *)
(***************************************************************************)
Init ==
  /\ pc = "ready"
  /\ op = "none"
  /\ tx = NoTx
  /\ receipt = NoReceipt
  /\ provider = "ok"
  /\ args = NoArgs
  /\ locals = NoLocals
  /\ result = NoResult
  /\ waiting = EmptyBag
  /\ sweepIdx = 0
  /\ returned = {}
  /\ metricsCache = EmptyMap
  /\ knownContractsMap = knownContracts
  /\ pending = [n \in CollectBlocks |-> 0]
  /\ history = NoHistory

\* the call that has made the last step
Running ==
  [op |-> op, pc |-> pc, provider |-> provider, tx |-> tx, receipt |-> receipt,
   args |-> args, locals |-> locals, result |-> result]

\* the calls that wait at an await, but for those of collectNetworkMetrics
CallsInFlight ==
  IF pc \in {"ready", "done"} THEN waiting ELSE waiting (+) SetToBag({Running})

CallsOf(name) == {f \in BagToSet(CallsInFlight) : f.op = name}

\* the calls of collectNetworkMetrics that wait for the provider
PendingTotal == pending[1] + pending[2] + pending[Len(Chain) + 1]

\* a call holds something once the provider has answered it with an object
\* or it has assigned a local
Holds(f) == f.tx # NoTx \/ f.receipt # NoReceipt \/ f.locals # NoLocals

Holding(calls) ==
  BagCardinality([f \in {g \in BagToSet(calls) : Holds(g)} |-> calls[f]])

\* the call g has made a step and the calls `others` wait
Runs(g, others) ==
  /\ pc' = g.pc
  /\ op' = g.op
  /\ provider' = g.provider
  /\ tx' = g.tx
  /\ receipt' = g.receipt
  /\ args' = g.args
  /\ locals' = g.locals
  /\ result' = g.result
  /\ waiting' = others
  /\ UNCHANGED <<sweepIdx, returned>>

\* a method is called and runs to g: its first await, or its end
Start(g) ==
  /\ BagCardinality(CallsInFlight) + PendingTotal < MaxInFlight
  /\ Runs(g, CallsInFlight)
  /\ UNCHANGED collectorVars

\* the promise the call f waits for settles, and f runs to g
Resume(f, g) ==
  /\ Holding(CallsInFlight (-) SetToBag({f})) + (IF Holds(g) THEN 1 ELSE 0) <= MaxHolding
  /\ Runs(g, CallsInFlight (-) SetToBag({f}))
  /\ UNCHANGED collectorVars

\* what can settle the promise of the provider the call f waits for, when
\* the provider holds the pairs `held` of a transaction and its receipt
\* under the hashes: a rejection; a transaction; a receipt held with the
\* transaction; a block or null; the code at the address.  A promise of the
\* program's own resolves
Answers(f, held) ==
  IF f.pc = "getTransaction" THEN {Rejected} \cup {Answer(h[1]) : h \in held}
  ELSE IF f.pc = "getTransactionReceipt"
    THEN {Rejected} \cup {Answer(h[2]) : h \in {k \in held : k[1] = f.tx}}
  ELSE IF f.pc = "getBlock" THEN {Rejected, Answer(TRUE), Answer(FALSE)}
  ELSE IF f.pc = "getCode" THEN {Rejected, Answer(TRUE)}
  ELSE {Answer(TRUE)}

\* what can settle the promise the report f waits for: a rejection, the
\* block, the receipt of the transaction in hand
ReportAnswers(blocks, f) ==
  IF f.pc = "getBlockWithTransactions" THEN {Rejected, Answer(TRUE)}
  ELSE IF f.pc = "getTransactionReceipt"
    THEN {Rejected,
          Answer([found |-> TRUE,
                  logs |-> blocks[f.locals.blockNum].transactions[f.locals.index].logs])}
  ELSE {Answer(TRUE)}

\* variant: the call stores its result in the metrics cache
Call_CachingResult(name, a, t, r, res) ==
  /\ Runs([op |-> name, pc |-> "done", provider |-> "ok", tx |-> t, receipt |-> r,
           args |-> a, locals |-> NoLocals, result |-> res], CallsInFlight)
  /\ metricsCache' = MapSet(metricsCache, name, res)
  /\ UNCHANGED <<knownContractsMap, pending, history>>

\* a call of a method that returns without waiting; the calls that wait at
\* an await go on waiting
Call(name, a, t, r, res) ==
  /\ Runs([op |-> name, pc |-> "done", provider |-> "ok", tx |-> t, receipt |-> r,
           args |-> a, locals |-> NoLocals, result |-> res], CallsInFlight)
  /\ UNCHANGED collectorVars

\* a call of a function of its arguments alone
CallWith(name, a, res) ==
  /\ Runs([op |-> name, pc |-> "done", provider |-> "ok", tx |-> NoTx,
           receipt |-> NoReceipt, args |-> a, locals |-> NoLocals, result |-> res],
          CallsInFlight)
  /\ UNCHANGED collectorVars

\* the first k logs
Prefix(logs, k) == SubSeq(logs, 1, k)

\* categorizeTransaction(tx, receipt, tokenTransfers), called as
\* analyzeTransaction and generateAnalyticsReport call it: with the
\* transfers decoded from the receipt before an await, when the receipt
\* held its first k logs
Categorize ==
  /\ pc = "ready"
  /\ \E t \in FoundTxs, r \in FoundReceipts :
       \E k \in 0..Len(r.logs) :
         Call("categorizeTransaction",
              [tokenTransfers |-> extractTokenTransfers(Prefix(r.logs, k))], t, r,
              Return(categorizeTransaction(t, r, extractTokenTransfers(Prefix(r.logs, k)))))

ExtractTokenTransfers ==
  /\ pc = "ready"
  /\ \E r \in FoundReceipts :
       Call("extractTokenTransfers", NoArgs, NoTx, r,
            Return(extractTokenTransfers(r.logs)))

ParseNFTLogs ==
  /\ pc = "ready"
  /\ \E r \in FoundReceipts :
       Call("parseNFTLogs", NoArgs, NoTx, r, parseNFTLogs(r.logs))

GetContractInfo ==
  /\ pc = "ready"
  /\ \E a \in LookupArguments :
       CallWith("getContractInfo", [address |-> a], Return(getContractInfo(a)))

IsKnownContract ==
  /\ pc = "ready"
  /\ \E a \in LookupArguments :
       CallWith("isKnownContract", [address |-> a], Return(isKnownContract(a)))

GetTokenInfo ==
  /\ pc = "ready"
  /\ \E a \in LookupArguments :
       CallWith("getTokenInfo", [address |-> a], Return(getTokenInfo(a)))

CalculateGasCost ==
  /\ pc = "ready"
  /\ \E gasUsed \in GasUsedValues, gasPrice \in GasPriceValues :
       CallWith("calculateGasCost", [gasUsed |-> gasUsed, gasPrice |-> gasPrice],
                calculateGasCost(gasUsed, gasPrice))

CalculateGasEfficiency ==
  /\ pc = "ready"
  /\ \E a \in GasEfficiencyInputs :
       CallWith("calculateGasEfficiency", a, calculateGasEfficiency(a.gasUsed, a.gasLimit))

\* the async method has no await: it runs to its end when it is called
GetImpermanentLossCalculation ==
  /\ pc = "ready"
  /\ \E entryPrice \in Prices, currentPrice \in Prices :
       CallWith("getImpermanentLossCalculation",
                [poolAddress |-> UniswapRouter, entryPrice |-> entryPrice,
                 currentPrice |-> currentPrice],
                getImpermanentLossCalculation(UniswapRouter, entryPrice, currentPrice))

GetOptimizationSuggestions ==
  /\ pc = "ready"
  /\ \E a \in SuggestionInputs :
       CallWith("getOptimizationSuggestions", a,
                Return(getOptimizationSuggestions(a.gasUsed, a.gasLimit)))

DetermineBridgeDirection ==
  /\ pc = "ready"
  /\ \E t \in FoundZeroValueTxs, r \in FoundReceipts :
       Call("determineBridgeDirection", NoArgs, t, r,
            determineBridgeDirection(t.to, r.logs))

\* the caller takes the result of the call that has ended
NextCall ==
  /\ pc = "done"
  /\ pc' = "ready"
  /\ op' = "none"
  /\ tx' = NoTx
  /\ receipt' = NoReceipt
  /\ provider' = "ok"
  /\ args' = NoArgs
  /\ locals' = NoLocals
  /\ result' = NoResult
  /\ UNCHANGED <<waiting, sweepIdx, returned>>
  /\ UNCHANGED collectorVars

\* the calls of the methods that return without waiting, one at a time
Next ==
  \/ Categorize
  \/ ExtractTokenTransfers
  \/ ParseNFTLogs
  \/ GetContractInfo
  \/ IsKnownContract
  \/ GetTokenInfo
  \/ CalculateGasCost
  \/ CalculateGasEfficiency
  \/ GetImpermanentLossCalculation
  \/ GetOptimizationSuggestions
  \/ DetermineBridgeDirection
  \/ NextCall

Spec == Init /\ [][Next]_vars

(***************************************************************************)
(* Analyses: calls of the async methods that overlap in time.  Every step  *)
(* is that of one call, from the settling of the promise it waits for to   *)
(* its next await or its end.                                              *)
(***************************************************************************)
AnalyzeTransaction ==
  /\ pc # "done"
  /\ Start(Started("analyzeTransaction", NoArgs, "getTransaction"))

AnalyzeTransactionAnswered(held) ==
  \E f \in CallsOf("analyzeTransaction") :
    \E answer \in Answers(f, held) : Resume(f, analyzeTransaction(f, answer))

AnalyzeTransactionResumed ==
  /\ pc # "done"
  /\ AnalyzeTransactionAnswered(ProviderHolds)

\* another holder of the receipt object appends a log to it while the call
\* waits for the promise of extractTokenTransfers
ReceiptGrows ==
  /\ pc # "done"
  /\ \E f \in CallsOf("analyzeTransaction"), log \in GrownLogs :
       /\ f.pc = "extractTokenTransfers"
       /\ f.receipt.found
       /\ Len(f.receipt.logs) < MaxLogs
       /\ Resume(f, [f EXCEPT !.receipt.logs = Append(@, log)])

AnalyzeSwap ==
  /\ pc # "done"
  /\ Start(Started("analyzeSwap", NoArgs, "getTransaction"))

AnalyzeSwapResumed ==
  /\ pc # "done"
  /\ \E f \in CallsOf("analyzeSwap") :
       \E answer \in Answers(f, ProviderHolds) : Resume(f, analyzeSwap(f, answer))

AnalyzeBridgeTransaction ==
  /\ pc # "done"
  /\ Start(Started("analyzeBridgeTransaction", NoArgs, "getTransaction"))

AnalyzeBridgeTransactionResumed ==
  /\ pc # "done"
  /\ \E f \in CallsOf("analyzeBridgeTransaction") :
       \E answer \in Answers(f, ProviderHolds) :
         Resume(f, analyzeBridgeTransaction(f, answer))

AnalyzeNFTTransaction ==
  /\ pc # "done"
  /\ Start(Started("analyzeNFTTransaction", NoArgs, "getTransaction"))

AnalyzeNFTTransactionResumed ==
  /\ pc # "done"
  /\ \E f \in CallsOf("analyzeNFTTransaction") :
       \E answer \in Answers(f, ProviderHoldsLogs) :
         Resume(f, analyzeNFTTransaction(f, answer))

GenerateAnalyticsReport ==
  /\ pc # "done"
  /\ \E fromBlock \in BlockNumbers, toBlock \in BlockNumbers :
       Start(generateAnalyticsReportCalled(
               Started("generateAnalyticsReport",
                       [fromBlock |-> fromBlock, toBlock |-> toBlock, failAt |-> NoFailure],
                       "getBlockWithTransactions")))

GenerateAnalyticsReportResumed ==
  /\ pc # "done"
  /\ \E f \in CallsOf("generateAnalyticsReport") :
       \E answer \in ReportAnswers(Chain, f) :
         Resume(f, generateAnalyticsReport(Chain, f, answer))

AnalysesNext ==
  \/ AnalyzeTransaction
  \/ AnalyzeTransactionResumed
  \/ ReceiptGrows
  \/ AnalyzeSwap
  \/ AnalyzeSwapResumed
  \/ AnalyzeBridgeTransaction
  \/ AnalyzeBridgeTransactionResumed
  \/ AnalyzeNFTTransaction
  \/ AnalyzeNFTTransactionResumed
  \/ GenerateAnalyticsReport
  \/ GenerateAnalyticsReportResumed
  \/ NextCall

SpecAnalyses == Init /\ [][AnalysesNext]_vars

(***************************************************************************)
(* Sweep: the classifier applied once to every context of the bounds, in a *)
(* fixed order, recording the categories it has returned                   *)
(***************************************************************************)
RECURSIVE SetToSeq(_)
SetToSeq(S) ==
  IF S = {} THEN << >>
  ELSE LET x == CHOOSE y \in S : TRUE IN << x >> \o SetToSeq(S \ {x})

TxSeq == SetToSeq(FoundTxs)

RECURSIVE Power(_, _)
Power(b, e) == IF e = 0 THEN 1 ELSE b * Power(b, e - 1)

RECURSIVE NumLists(_)
\* the number of log lists of length at most n
NumLists(n) == IF n = 0 THEN 1 ELSE NumLists(n - 1) + Power(Len(LogSeq), n)

RECURSIVE ListOfLength(_, _)
ListOfLength(i, k) ==
  IF k = 0 THEN << >>
  ELSE << LogSeq[(i % Len(LogSeq)) + 1] >> \o ListOfLength(i \div Len(LogSeq), k - 1)

RECURSIVE LogListAt(_, _)
\* the i-th log list, shorter lists first
LogListAt(i, k) ==
  IF i < Power(Len(LogSeq), k) THEN ListOfLength(i, k)
  ELSE LogListAt(i - Power(Len(LogSeq), k), k + 1)

NumContexts == Len(TxSeq) * NumLists(MaxLogs)

ContextAt(i) ==
  [tx |-> TxSeq[(i % Len(TxSeq)) + 1],
   receipt |-> [found |-> TRUE, logs |-> LogListAt(i \div Len(TxSeq), 0)]]

SweepStep ==
  /\ sweepIdx < NumContexts
  /\ LET ctx == ContextAt(sweepIdx)
         category == categorizeTransaction(ctx.tx, ctx.receipt,
                                           extractTokenTransfers(ctx.receipt.logs))
     IN /\ op' = "sweep"
        /\ tx' = ctx.tx
        /\ receipt' = ctx.receipt
        /\ result' = Return(category)
        /\ returned' = returned \cup {category}
  /\ sweepIdx' = sweepIdx + 1
  /\ UNCHANGED <<pc, provider, args, locals, waiting>>
  /\ UNCHANGED collectorVars

SweepNext == SweepStep

SpecSweep == Init /\ [][SweepNext]_vars

(***************************************************************************)
(* GasOptimizer: the analyses of single transactions                       *)
(***************************************************************************)
AnalyzeGasUsage ==
  /\ pc = "ready"
  /\ \E transaction \in GasTransactions :
       CallWith("analyzeGasUsage", transaction, analyzeGasUsage(transaction))

GasNext ==
  \/ AnalyzeGasUsage
  \/ CalculateGasCost
  \/ NextCall

SpecGas == Init /\ [][GasNext]_vars

(***************************************************************************)
(* Collector: calls of collectNetworkMetrics, of clearCache and of the     *)
(* classifications that overlap in time, on one BaseMetricsCollector       *)
(***************************************************************************)
\* one step of a call of collectNetworkMetrics or clearCache, which ends
\* the call ("done") or leaves it waiting for the provider ("ready"); a
\* classification that was running waits
CollectorStep(name, a, res, next) ==
  /\ Runs([op |-> name, pc |-> next, provider |-> "ok", tx |-> NoTx,
           receipt |-> NoReceipt, args |-> a, locals |-> NoLocals, result |-> res],
          CallsInFlight)
  /\ UNCHANGED knownContractsMap

\* a call finds its key in the cache and returns the cached metrics
CollectHit ==
  /\ pc # "done"
  /\ \E n \in CollectBlocks :
       /\ MapHas(metricsCache, cacheKey(n))
       /\ CollectorStep("collectNetworkMetrics", [blockNumber |-> n, step |-> "hit"],
                        Return(metricsCache[cacheKey(n)]), "done")
       /\ history' = [history EXCEPT !.returned[n] = @ \cup {metricsCache[cacheKey(n)]},
                                     !.afterClear[n] = FALSE]
       /\ UNCHANGED <<metricsCache, pending>>

\* a call does not find its key, asks the provider and waits
CollectFetch ==
  /\ pc # "done"
  /\ BagCardinality(CallsInFlight) + PendingTotal < MaxInFlight
  /\ \E n \in CollectBlocks :
       /\ ~MapHas(metricsCache, cacheKey(n))
       /\ history.asked[n] < MaxFetches
       /\ CollectorStep("collectNetworkMetrics", [blockNumber |-> n, step |-> "fetch"],
                        NoResult, "ready")
       /\ pending' = [pending EXCEPT ![n] = @ + 1]
       /\ history' = [history EXCEPT !.asked[n] = @ + 1, !.afterClear[n] = FALSE]
       /\ UNCHANGED metricsCache

\* the provider answers a waiting call with the block: the call builds the
\* metrics, stores them and returns them
CollectResolve ==
  /\ pc # "done"
  /\ \E n \in CollectBlocks \cap BlockNumbers :
       /\ pending[n] > 0
       /\ LET metrics == networkMetrics(n, Chain[n])
          IN /\ CollectorStep("collectNetworkMetrics",
                              [blockNumber |-> n, step |-> "resolve"], Return(metrics),
                              "done")
             /\ metricsCache' = MapSet(metricsCache, cacheKey(n), metrics)
             /\ history' = [history EXCEPT !.returned[n] = @ \cup {metrics}]
       /\ pending' = [pending EXCEPT ![n] = @ - 1]

\* the provider rejects, or answers null for a block it does not hold and
\* block.transactions throws: the call throws before it stores anything
CollectReject ==
  /\ pc # "done"
  /\ \E n \in CollectBlocks :
       /\ pending[n] > 0
       /\ \E error \in {"Network error"} \cup (IF n \in BlockNumbers THEN {} ELSE {"TypeError"}) :
            CollectorStep("collectNetworkMetrics",
                          [blockNumber |-> n, step |-> "reject"], Throw(error), "done")
       /\ pending' = [pending EXCEPT ![n] = @ - 1]
       /\ UNCHANGED <<metricsCache, history>>

ClearCache ==
  /\ pc # "done"
  /\ CollectorStep("clearCache", NoArgs, NoResult, "done")
  /\ metricsCache' = EmptyMap
  /\ history' = [NoHistory EXCEPT !.afterClear = [n \in CollectBlocks |-> TRUE]]
  /\ UNCHANGED pending

\* the calls of extractTokenTransfers and categorizeTransaction on the
\* transactions of the chain, each with what it returns
ClassifyCalls ==
  UNION {LET foundTx == [found |-> TRUE, to |-> t.to, value |-> t.value]
             foundReceipt == [found |-> TRUE, logs |-> t.logs]
         IN {[name |-> "extractTokenTransfers", args |-> NoArgs, tx |-> NoTx,
              receipt |-> foundReceipt,
              result |-> Return(extractTokenTransfers(t.logs))]}
            \cup
            {[name |-> "categorizeTransaction",
              args |-> [tokenTransfers |-> extractTokenTransfers(Prefix(t.logs, k))],
              tx |-> foundTx, receipt |-> foundReceipt,
              result |-> Return(categorizeTransaction(
                                  foundTx, foundReceipt,
                                  extractTokenTransfers(Prefix(t.logs, k))))]
               : k \in 0..Len(t.logs)}
           : t \in ChainTransactions}

\* a classification that returns without waiting is called, while other
\* calls wait or none does
Classify ==
  /\ pc # "done"
  /\ \E c \in ClassifyCalls : Call(c.name, c.args, c.tx, c.receipt, c.result)

\* the promise a call of analyzeTransaction waits for settles; the provider
\* holds the transactions of the chain
ClassifyResumed ==
  /\ pc # "done"
  /\ AnalyzeTransactionAnswered(ChainHolds)

CollectorNext ==
  \/ CollectHit
  \/ CollectFetch
  \/ CollectResolve
  \/ CollectReject
  \/ ClearCache
  \/ Classify
  \/ AnalyzeTransaction
  \/ ClassifyResumed
  \/ ReceiptGrows
  \/ NextCall

SpecCollector == Init /\ [][CollectorNext]_vars

(***************************************************************************)
(* Properties                                                              *)
(***************************************************************************)
Categorized == op = "categorizeTransaction"

\* the token transfers the classifier was given
DecodedTransfers == args.tokenTransfers

\* C1: a transaction whose `to` is null is classified as a contract
\* deployment, whatever its value and logs are.
C1_NullToIsContractDeployment ==
  (Categorized /\ tx.to = NULL) => result = Return("contract_deployment")

\* C2: once the classifier has been applied to every context, each category
\* of the taxonomy has been returned at least once.
C2_EveryCategoryReturned ==
  sweepIdx = NumContexts => returned = TransactionCategory

\* C3: a transaction sent to a registered bridge-category address is
\* classified as bridge, whatever its value and logs are.
C3_BridgeAddressIsBridge ==
  (Categorized /\ tx.to # NULL /\ getContractInfo(tx.to).category = "bridge")
    => result = Return("bridge")

\* C4 as claimed: non-null `to`, positive value and no decoded token transfer
\* give transfer, also when the receipt holds raw logs.
C4_NativeTransferByEvents ==
  (Categorized /\ tx.to # NULL /\ tx.value > 0 /\ DecodedTransfers = << >>)
    => result = Return("transfer")

\* C4 as amended: non-null `to` and positive value give transfer when the
\* receipt holds no log at all; when it holds raw logs of which none decodes
\* to a token transfer they give contract_interaction.
C4_NativeTransferByLogs ==
  (Categorized /\ tx.to # NULL /\ tx.value > 0 /\ DecodedTransfers = << >>)
    => result = Return(IF Len(receipt.logs) = 0 THEN "transfer"
                       ELSE "contract_interaction")

C4_Witness ==
  /\ Categorized /\ tx.to # NULL /\ tx.value > 0
  /\ Len(receipt.logs) > 0 /\ DecodedTransfers = << >>
  /\ result = Return("contract_interaction")

NativeTransferRule == tx.value > 0 /\ Len(receipt.logs) = 0

\* C5: for a non-null unregistered `to` outside the native-transfer rule, the
\* category is transfer for exactly one decoded token transfer, defi_swap for
\* more than one, contract_interaction for none but a positive log count,
\* and unknown otherwise.
C5_ResidualRules ==
  (Categorized /\ tx.to # NULL /\ ~isKnownContract(tx.to) /\ ~NativeTransferRule)
    => result = Return(IF Len(DecodedTransfers) = 1 THEN "transfer"
                       ELSE IF Len(DecodedTransfers) > 1 THEN "defi_swap"
                       ELSE IF Len(receipt.logs) > 0 THEN "contract_interaction"
                       ELSE "unknown")

C5_Witness ==
  /\ Categorized /\ tx.to = UnknownAddress /\ tx.value > 0
  /\ Len(DecodedTransfers) = 2 /\ Len(receipt.logs) = 2
  /\ result = Return("defi_swap")

\* C6: the classifier returns a category of the taxonomy for every context
\* (any `to` including null, any value, any log list) and never fails.
C6_ClassificationTotal ==
  Categorized => (result.kind = "return" /\ result.value \in TransactionCategory)

C6_Witness ==
  /\ Categorized /\ tx.to # NULL /\ tx.value = 0 /\ receipt.logs = << >>
  /\ result = Return("unknown")

SameAddress(a, b) == a # NULL /\ toLowerCase(a) = toLowerCase(b)

SomeTopicProven ==
  \E i \in 1..Len(receipt.logs) :
    \E j \in 1..Len(receipt.logs[i].topics) :
      includes(receipt.logs[i].topics[j], "Proven")

\* C7: the bridge direction is deposit for the L1 standard bridge, withdrawal
\* for the L2 standard bridge, and for the portal prove when some log topic
\* contains the proven marker and finalize when none does (addresses
\* compared case-insensitively).
C7_BridgeDirection ==
  op = "determineBridgeDirection" =>
    /\ SameAddress(tx.to, bridgeContracts.l1StandardBridge) => result = Return("deposit")
    /\ SameAddress(tx.to, bridgeContracts.l2StandardBridge) => result = Return("withdrawal")
    /\ SameAddress(tx.to, bridgeContracts.optimismPortal) =>
         result = Return(IF SomeTopicProven THEN "prove" ELSE "finalize")

ProtocolsWritten(a) ==
  {i \in 1..Len(protocols) :
     \E j \in 1..Len(protocols[i].addresses) : protocols[i].addresses[j] = a}

\* C8: analyzeSwap, given a found transaction and receipt whose `to` is an
\* address of the protocol table as written there, returns an analysis whose
\* protocol is that protocol's name.
C8_SwapOfRegisteredProtocol ==
  (/\ pc = "done" /\ op = "analyzeSwap" /\ provider = "ok" /\ tx.found /\ receipt.found
   /\ ProtocolsWritten(tx.to) # {})
    => /\ result.kind = "return"
       /\ \E i \in ProtocolsWritten(tx.to) : result.value.protocol = protocols[i].name

RegisteredProtocolAddress(a) ==
  \E i \in 1..Len(protocols) :
    \E j \in 1..Len(protocols[i].addresses) : SameAddress(a, protocols[i].addresses[j])

\* C9: analyzeSwap never throws, and returns null when the transaction or
\* the receipt is not found, when the provider rejects, when `to` is null
\* and when `to` is not a registered protocol address.
C9_AnalyzeSwapNeverThrows ==
  (pc = "done" /\ op = "analyzeSwap") =>
    /\ result.kind # "throw"
    /\ (\/ provider = "reject" \/ ~tx.found \/ ~receipt.found
        \/ tx.to = NULL \/ ~RegisteredProtocolAddress(tx.to))
         => result = ReturnNull

C9_Witness ==
  /\ pc = "done" /\ op = "analyzeSwap" /\ provider = "ok" /\ ~tx.found /\ receipt.found
  /\ result = ReturnNull

Analyses ==
  {"analyzeTransaction", "analyzeNFTTransaction", "analyzeSwap", "analyzeBridgeTransaction"}

\* C10: when the transaction or its receipt is absent, an analysis ends in a
\* thrown not-found error or in a null result, never in a populated record.
C10_AbsentIsExplicitFailure ==
  (pc = "done" /\ op \in Analyses /\ provider = "ok" /\ (~tx.found \/ ~receipt.found))
    => \/ result = ReturnNull
       \/ result = Throw("Transaction not found")

\* a 32-byte word as the node's JSON-RPC returns it: "0x" and 64 lower-case
\* hex digits
IsWord(w) ==
  Len(w) = 66 /\ SubSeq(w, 1, 2) = "0x" /\ IsHexDigits(slice(w, 2)) /\ toLowerCase(w) = w

HasTransferSignature(log) ==
  Len(log.topics) > 0 /\ log.topics[1] = transferEventSignature

\* an ERC-20 Transfer log: the signature, two address words, one data word
WellFormedTransfer(log) ==
  /\ HasTransferSignature(log)
  /\ Len(log.topics) = 3
  /\ IsWord(log.topics[2]) /\ IsWord(log.topics[3]) /\ IsWord(log.data)

\* an ERC-721 Transfer log: the signature, two address words, the token id
WellFormedNFTTransfer(log) ==
  /\ HasTransferSignature(log)
  /\ Len(log.topics) = 4
  /\ IsWord(log.topics[2]) /\ IsWord(log.topics[3]) /\ IsWord(log.topics[4])

RECURSIVE StripZeros(_)
StripZeros(digits) ==
  IF Len(digits) > 0 /\ CharAt(digits, 1) = "0" THEN StripZeros(slice(digits, 1))
  ELSE digits

\* the unsigned integer a "0x" string writes, as its digits without leading
\* zeros (the empty string for zero)
UnsignedOf(hex) == StripZeros(toLowerCase(slice(hex, 2)))

\* the low 20 bytes of a 32-byte word, as a lower-case address
LowTwentyBytes(word) == "0x" \o SubSeq(word, 27, 66)

\* transfer x is what the claim says a well-formed Transfer log decodes to
TransferOfLog(x, log) ==
  /\ WellFormedTransfer(log)
  /\ x.token = log.address
  /\ toLowerCase(x.from) = LowTwentyBytes(log.topics[2])
  /\ toLowerCase(x.to) = LowTwentyBytes(log.topics[3])
  /\ UnsignedOf(x.amount) = UnsignedOf(log.data)

Extracted == op = "extractTokenTransfers"

\* C11: a log with the Transfer signature in topics[0], exactly three topics
\* and well-formed words decodes to a transfer whose token is the log's
\* address, whose from and to are the low 20 bytes of topics[1] and
\* topics[2], and whose amount is the data word read as an unsigned integer;
\* a list of one such log decodes to exactly that one transfer
C11_TransferLogDecodes ==
  Extracted =>
    /\ \A i \in 1..Len(receipt.logs) :
         WellFormedTransfer(receipt.logs[i]) =>
           \E k \in 1..Len(result.value) :
             TransferOfLog(result.value[k], receipt.logs[i])
    /\ (Len(receipt.logs) = 1 /\ WellFormedTransfer(receipt.logs[1])) =>
         Len(result.value) = 1

\* the WETH Transfer log of 10^18 units from the router to the user has been
\* decoded to its one transfer
C11_Witness ==
  /\ Extracted
  /\ receipt.logs = <<LogWETHTransfer>>
  /\ Len(result.value) = 1
  /\ result.value[1].token = WETH
  /\ result.value[1].from = "0x2626664c2603336E57B271c5C0b26F421741e481"
  /\ toLowerCase(result.value[1].to) = LowTwentyBytes(TopicUser)
  /\ result.value[1].amount = "0x0de0b6b3a7640000"

\* C12: a log whose topics[0] is not the Transfer signature, a log without
\* topics included, produces no decoded transfer and never makes the
\* decoding (extractTokenTransfers, parseNFTLogs, determineBridgeDirection)
\* throw
C12_UnrecognizedNeverThrows ==
  (/\ op \in {"extractTokenTransfers", "parseNFTLogs", "determineBridgeDirection"}
   /\ \A i \in 1..Len(receipt.logs) : ~HasTransferSignature(receipt.logs[i]))
  => /\ result.kind # "throw"
     /\ op \in {"extractTokenTransfers", "parseNFTLogs"} => result.value = << >>

\* C13: in extractTokenTransfers and parseNFTLogs a log with the Transfer
\* signature that is malformed for the decoder is left out without an error,
\* and the well-formed logs of the same list are still decoded
C13_MalformedLeftOut ==
  /\ Extracted =>
       /\ result.kind = "return"
       /\ \A i \in 1..Len(receipt.logs) :
            WellFormedTransfer(receipt.logs[i]) =>
              \E k \in 1..Len(result.value) :
                result.value[k].token = receipt.logs[i].address
       /\ Len(result.value) =
            Cardinality({i \in 1..Len(receipt.logs) : WellFormedTransfer(receipt.logs[i])})
  /\ op = "parseNFTLogs" =>
       /\ result.kind = "return"
       /\ \A i \in 1..Len(receipt.logs) :
            WellFormedNFTTransfer(receipt.logs[i]) =>
              \E k \in 1..Len(result.value) :
                result.value[k].address = receipt.logs[i].address
       /\ Len(result.value) =
            Cardinality({i \in 1..Len(receipt.logs) : WellFormedNFTTransfer(receipt.logs[i])})

\* C14: the decimals of a decoded transfer are those the static token table
\* registers for the log's address, and 18 when it registers none
C14_DecimalsFromTokenTable ==
  Extracted =>
    \A k \in 1..Len(result.value) :
      LET info == getTokenInfo(result.value[k].token)
      IN result.value[k].decimals = IF info = NoToken THEN 18 ELSE info.decimals

\* C15: the decoded transfers are an order-preserving subsequence of the
\* log list, with at most one transfer per log
C15_OrderPreservingSubsequence ==
  Extracted =>
    /\ Len(result.value) <= Len(receipt.logs)
    /\ \E f \in [1..Len(result.value) -> 1..Len(receipt.logs)] :
         /\ \A a, b \in 1..Len(result.value) : a < b => f[a] < f[b]
         /\ \A a \in 1..Len(result.value) :
              TransferOfLog(result.value[a], receipt.logs[f[a]])

C15_Witness ==
  /\ Extracted
  /\ receipt.logs = <<LogUSDCTransfer, LogWETHTransfer>>
  /\ Len(result.value) = 2
  /\ result.value[1].token = USDC
  /\ result.value[2].token = WETH

\* the same string up to the case of its letters, compared letter by letter
SameLetters(a, b) ==
  Len(a) = Len(b) /\ \A i \in 1..Len(a) : LowerChar(CharAt(a, i)) = LowerChar(CharAt(b, i))

ContractAddresses == {BASE_CONTRACTS[i].address : i \in 1..Len(BASE_CONTRACTS)}

Lookups == {"getContractInfo", "isKnownContract", "getTokenInfo"}

\* C16: getContractInfo, isKnownContract and getTokenInfo find the entry of
\* a registered address under every letter-casing of it, do not find it
\* under a cut, extended or unprefixed form of the address, return the
\* not-found value for what is not registered, and never throw
C16_LookupCaseInsensitiveExact ==
  /\ op \in Lookups => result.kind = "return"
  /\ op = "getContractInfo" =>
       /\ \A i \in 1..Len(BASE_CONTRACTS) :
            /\ args.address \in AllCasings(BASE_CONTRACTS[i].address)
                 => result.value = BASE_CONTRACTS[i]
            /\ args.address \in PartialsOf(BASE_CONTRACTS[i].address)
                 => result.value # BASE_CONTRACTS[i]
       /\ (\A a \in ContractAddresses : ~SameLetters(a, args.address))
            => result.value = NoContract
  /\ op = "isKnownContract" =>
       result.value = (\E a \in ContractAddresses : SameLetters(a, args.address))
  /\ op = "getTokenInfo" =>
       /\ \A i \in 1..Len(BASE_TOKENS) :
            /\ args.address \in AllCasings(BASE_TOKENS[i].address)
                 => result.value = BASE_TOKENS[i]
            /\ args.address \in PartialsOf(BASE_TOKENS[i].address)
                 => result.value # BASE_TOKENS[i]
       /\ (\A i \in 1..Len(BASE_TOKENS) :
             /\ ~SameLetters(BASE_TOKENS[i].address, args.address)
             /\ ~SameLetters(BASE_TOKENS[i].symbol, args.address))
            => result.value = NoToken

\* an upper-cased registered address is found, by all three lookups' rule
C16_Witness ==
  /\ op = "getTokenInfo"
  /\ args.address = "0x833589FCD6EDB6E08F4C7C32D4F71B54BDA02913"
  /\ result = Return(BASE_TOKENS[3])

\* pairwise coprime moduli whose product exceeds every gas cost in wei of
\* the modelled inputs: equal residues under all of them is equality
Moduli == {46337, 46327, 46309, 46307, 46301, 46279, 46273}

RECURSIVE Residue(_, _)
\* the number written by a string of decimal digits, modulo m
Residue(digits, m) ==
  IF Len(digits) = 0 THEN 0
  ELSE (10 * Residue(Front(digits), m) + LastDigit(digits)) % m

WholePart(ether) == SubSeq(ether, 1, (CHOOSE i \in 1..Len(ether) : CharAt(ether, i) = ".") - 1)
FractionPart(ether) == slice(ether, CHOOSE i \in 1..Len(ether) : CharAt(ether, i) = ".")

RECURSIVE Zeros(_)
Zeros(n) == IF n <= 0 THEN "" ELSE "0" \o Zeros(n - 1)

\* the wei an ether string stands for: its digits, with the fraction taken
\* as 18 places
WeiOfEther(ether) ==
  WholePart(ether) \o FractionPart(ether) \o Zeros(18 - Len(FractionPart(ether)))

\* C17: the reported gas cost is a decimal ether figure of at most 18
\* fractional digits that stands for exactly gasUsed * gasPrice wei (no
\* rounding, no overflow); 21000 gas at 20 gwei is reported as 0.00042
C17_GasCostExact ==
  op = "calculateGasCost" =>
    /\ result.kind = "return"
    /\ Cardinality({i \in 1..Len(result.value) : CharAt(result.value, i) = "."}) = 1
    /\ IsDecimal(WholePart(result.value)) /\ Len(WholePart(result.value)) >= 1
    /\ IsDecimal(FractionPart(result.value))
    /\ Len(FractionPart(result.value)) \in 1..18
    /\ Len(WeiOfEther(result.value)) <= Len(args.gasUsed) + Len(args.gasPrice) + 18
    /\ \A m \in Moduli :
         Residue(WeiOfEther(result.value), m)
           = (Residue(args.gasUsed, m) * Residue(args.gasPrice, m)) % m
    /\ (args.gasUsed = "21000" /\ args.gasPrice = "20000000000")
         => result.value = "0.00042"

C17_Witness ==
  /\ op = "calculateGasCost"
  /\ args = [gasUsed |-> "30000000", gasPrice |-> "999999999999999999"]
  /\ result = Return("29999999.99999999997")

Ratings == {"Excellent", "Good", "Average", "Poor"}

\* the whole percent of gasUsed in gasLimit: an integer threshold is reached
\* by the percentage exactly when it is reached by its whole part
WholePercent(gasUsed, gasLimit) == (100 * gasUsed) \div gasLimit

\* C18: the rating is one of the four values; with a known positive
\* gasLimit it is Excellent from 90 percent, Good from 70 to below 90,
\* Average from 40 to below 70 and Poor below 40; it is Average when
\* gasLimit is unknown or zero
C18_RatingThresholds ==
  op = "calculateGasEfficiency" =>
    /\ result.kind = "return"
    /\ result.value.rating \in Ratings
    /\ IF args.gasLimit.known /\ args.gasLimit.value > 0
         THEN LET percent == WholePercent(args.gasUsed, args.gasLimit.value)
              IN /\ result.value.rating = "Excellent" <=> percent >= 90
                 /\ result.value.rating = "Good" <=> (percent >= 70 /\ percent < 90)
                 /\ result.value.rating = "Average" <=> (percent >= 40 /\ percent < 70)
                 /\ result.value.rating = "Poor" <=> percent < 40
         ELSE result.value.rating = "Average"

\* gas used exactly on the 90 percent threshold
C18_Witness ==
  /\ op = "calculateGasEfficiency"
  /\ args.gasUsed = 18900
  /\ args.gasLimit = [known |-> TRUE, value |-> 21000]
  /\ result.value.rating = "Excellent"

ImpermanentLossCalculated == op = "getImpermanentLossCalculation"

\* C19: getImpermanentLossCalculation returns exactly 0 when entryPrice
\* equals currentPrice and both are positive, and never returns a negative
\* number
C19_ZeroAtEqualPricesNeverNegative ==
  ImpermanentLossCalculated =>
    /\ (args.entryPrice = args.currentPrice /\ args.entryPrice > 0)
         => result = Return(DoubleZero)
    /\ result.kind = "return" =>
         /\ result.value.kind # "negative"
         /\ result.value.kind = "infinity" => result.value.value > 0

\* the calculation has run on equal positive prices
C19_Witness ==
  /\ ImpermanentLossCalculated
  /\ args.entryPrice = 2000 /\ args.currentPrice = 2000
  /\ result = Return(DoubleZero)

\* C20: an entry price that is zero or negative is reported to the caller
\* as an error, and no numeric result is returned for it
C20_NonPositiveEntryPriceIsError ==
  (ImpermanentLossCalculated /\ args.entryPrice <= 0) => result.kind = "throw"

ToIsMarketplace ==
  tx.to # NULL /\ \E i \in 1..Len(marketplaces) : SameLetters(marketplaces[i].address, tx.to)

HasNFTTransferLog ==
  \E i \in 1..Len(receipt.logs) :
    HasTransferSignature(receipt.logs[i]) /\ Len(receipt.logs[i].topics) = 4

\* C21: analyzeNFTTransaction, given a found transaction and receipt,
\* reports type 'sale' exactly when `to` is a registered marketplace address
\* (in any casing) and the receipt holds a 4-topic Transfer log; with such a
\* log and a non-marketplace `to` it reports type 'transfer'
C21_SaleIffMarketplaceAndNFTLog ==
  (/\ pc = "done" /\ op = "analyzeNFTTransaction"
   /\ provider = "ok" /\ tx.found /\ receipt.found) =>
    /\ (result.kind = "return" /\ result.value.type = "sale")
         <=> (ToIsMarketplace /\ HasNFTTransferLog)
    /\ (~ToIsMarketplace /\ HasNFTTransferLog)
         => (result.kind = "return" /\ result.value.type = "transfer")

Contains(list, x) == \E i \in 1..Len(list) : list[i] = x

\* C22: getOptimizationSuggestions contains the 'Gas limit is too low'
\* suggestion whenever gasUsed is 95 percent of gasLimit or more
C22_TooLowFrom95Percent ==
  (op = "getOptimizationSuggestions" /\ 100 * args.gasUsed >= 95 * args.gasLimit)
    => Contains(result.value, LimitTooLow)

Reported == pc = "done" /\ op = "generateAnalyticsReport"

\* the transactions of the block range, as <<block number, index>>
RangeTransactions ==
  {bi \in BlockNumbers \X (1..3) :
     /\ bi[1] \in args.fromBlock..args.toBlock
     /\ bi[2] <= Len(Chain[bi[1]].transactions)}

BlockFailed(n) == args.failAt[n] <= Len(Chain[n].transactions)

\* C24: a failure while processing one block does not stop the blocks after
\* it: every transaction of a block of the range in which nothing failed is
\* counted, in totalTransactions and in its category, and of a block in
\* which a fetch failed exactly the transactions before the failure are
\* counted in a category and those up to the failure in totalTransactions
C24_FailureLeavesOtherBlocksCounted ==
  Reported =>
    /\ result.kind = "return"
    /\ \A c \in TransactionCategory :
         result.value.categories[c] =
           Cardinality({bi \in RangeTransactions :
                          /\ bi[2] < args.failAt[bi[1]]
                          /\ CategoryOf(Chain[bi[1]].transactions[bi[2]]) = c})
    /\ result.value.summary.totalTransactions =
         Cardinality({bi \in RangeTransactions : bi[2] <= args.failAt[bi[1]]})

\* the fetch of block 1 fails, blocks 2 and 3 are counted in full
C24_Witness ==
  /\ Reported
  /\ args.fromBlock = 1 /\ args.toBlock = 3
  /\ BlockFailed(1) /\ ~BlockFailed(2) /\ ~BlockFailed(3)
  /\ result.value.categories["contract_interaction"] = 1
  /\ result.value.categories["unknown"] = 1

RECURSIVE SumOver(_, _)
SumOver(f, S) ==
  IF S = {} THEN 0
  ELSE LET x == CHOOSE y \in S : TRUE IN f[x] + SumOver(f, S \ {x})

\* C25: in every report the per-category counts add up to
\* summary.totalTransactions
C25_CategoriesSumToTotal ==
  Reported =>
    SumOver(result.value.categories, TransactionCategory)
      = result.value.summary.totalTransactions

Classifications == {"analyzeTransaction", "extractTokenTransfers", "categorizeTransaction"}

\* the result res of a classification is what its inputs make it: the
\* receipt and the transfers it was given; for analyzeTransaction what the
\* provider answered, with the transfers decoded from the logs the receipt
\* held at a moment of the call and the category of the receipt as it is
Classified(name, a, p, t, r, res) ==
  IF name = "extractTokenTransfers" THEN res = Return(extractTokenTransfers(r.logs))
  ELSE IF name = "categorizeTransaction"
    THEN res = Return(categorizeTransaction(t, r, a.tokenTransfers))
  ELSE IF p = "reject" THEN res = Throw("Network error")
  ELSE IF ~t.found \/ ~r.found \/ p = "noBlock" THEN res = Throw("TypeError")
  ELSE \E k \in 0..Len(r.logs) :
         res = Return([to |-> IF t.to = NULL THEN "" ELSE t.to,
                       value |-> t.value,
                       tokenTransfers |-> extractTokenTransfers(Prefix(r.logs, k)),
                       category |-> categorizeTransaction(
                                      t, r, extractTokenTransfers(Prefix(r.logs, k)))])

ClassificationDone == pc = "done" /\ op \in Classifications

\* C23: a classification (analyzeTransaction, extractTokenTransfers,
\* categorizeTransaction) leaves the metrics cache and the known-contract
\* table as they were in each of its steps, the table is the one built at
\* construction, and the result is the function of the inputs alone,
\* whatever calls of collectNetworkMetrics and clearCache ran before it or
\* while it waited
C23_ClassificationLeavesCollectorUnchanged ==
  /\ [](ClassificationDone =>
         /\ Classified(op, args, provider, tx, receipt, result)
         /\ knownContractsMap = knownContracts)
  /\ [][op' \in Classifications =>
          /\ metricsCache' = metricsCache
          /\ knownContractsMap' = knownContractsMap]_vars

\* a classification made while the cache holds the metrics of a block
C23_Witness ==
  /\ ClassificationDone
  /\ op = "analyzeTransaction"
  /\ result.kind = "return" /\ result.value.category = "defi_swap"
  /\ MapHas(metricsCache, cacheKey(1))

\* a call of collectNetworkMetrics(n) starts in this step
CollectStarts(n) ==
  /\ vars' # vars
  /\ op' = "collectNetworkMetrics"
  /\ args'.blockNumber = n
  /\ args'.step \in {"hit", "fetch"}

\* C26: once a call for block n has returned, every call for n started
\* later returns the same metrics and does not ask the provider, until
\* clearCache; the first call for n started after clearCache asks the
\* provider; a call whose fetch fails leaves the cache as it was
C26_CachedUntilCleared ==
  [][\A n \in CollectBlocks :
       /\ (CollectStarts(n) /\ history.returned[n] # {}) =>
            /\ result'.kind = "return"
            /\ history.returned[n] = {result'.value}
            /\ history'.asked = history.asked
       /\ (CollectStarts(n) /\ history.afterClear[n]) =>
            history'.asked[n] = history.asked[n] + 1
       /\ (op' = "collectNetworkMetrics" /\ result'.kind = "throw") =>
            metricsCache' = metricsCache]_vars

\* C27: between two clearCache calls the provider is asked for a block at
\* most once, also when calls for the same uncached block overlap
C27_AskedAtMostOnce ==
  \A n \in CollectBlocks : history.asked[n] <= 1

GasAnalyzed == op = "analyzeGasUsage"

\* C28: analyzeGasUsage returns a report, and does not throw, for every
\* transaction whose gasUsed and gasPrice are non-negative integers,
\* gasUsed = 0 included
C28_ReportForNonNegativeGas ==
  (GasAnalyzed /\ IsDecimal(args.gasUsed) /\ IsDecimal(args.gasPrice)
     /\ args.gasUsed # "" /\ args.gasPrice # "")
    => result.kind = "return"

SuggestionTypes ==
  {result.value.suggestions[i].type : i \in 1..Len(result.value.suggestions)}

\* C29: for a transaction with gasUsed >= 1 analyzeGasUsage returns a
\* report with no suggestion of type gas_limit: analyzeGasLimit finds the
\* usage ratio against 120% of gasUsed at or above the 0.7 threshold
C29_NoGasLimitSuggestion ==
  (GasAnalyzed /\ args.gasUsed # "0") =>
    /\ result.kind = "return"
    /\ "gas_limit" \notin SuggestionTypes
    /\ analyzeGasLimit(args) = ReturnNull

\* the gas used with the lowest ratio, 500 / 6 = 83 hundredths
C29_Witness ==
  /\ GasAnalyzed
  /\ args.gasUsed = "5"
  /\ result.kind = "return"
  /\ "gas_price" \in SuggestionTypes

\* 10^18 times the gas cost of the analyzed transaction
CostWei == NatOfDigits(BigMul(args.gasUsed, args.gasPrice))

\* the exact comparison a / b <= c / d of fractions of naturals
FractionAtMost(a, b, c, d) == ~NatLess(NatMul(c, b), NatMul(a, d))

\* C30: in the report of a transaction with positive gas cost totalSavings
\* is at most 90% of currentGasCost, optimizedGasCost is at least 10% of
\* currentGasCost, and savingsPercentage is between 0 and 90
C30_SavingsCappedAtNinetyPercent ==
  (GasAnalyzed /\ result.kind = "return" /\ CostWei # << >>) =>
    LET totalSavings == parseFloat(result.value.totalSavings)
        optimizedGasCost == parseFloat(result.value.optimizedGasCost)
        savingsPercentage == result.value.savingsPercentage
    IN /\ FractionAtMost(Num(totalSavings), Den(totalSavings),
                         NatMul(<<9>>, CostWei), NatPow10(19))
       /\ FractionAtMost(CostWei, NatPow10(19),
                         Num(optimizedGasCost), Den(optimizedGasCost))
       /\ savingsPercentage.kind = "double"
       /\ ~DoubleLess(DoubleOfNat(<<90>>), savingsPercentage)

====
